---- MODULE Spec2Model ----
(***************************************************************************)
(* Model of the CF-CryptoIQ market-data and analysis pipeline:             *)
(*   - APIManager (services/api_manager.py) over BinanceService and        *)
(*     CoinGeckoService: symbol normalisation, 5 minute cache, fallback;   *)
(*   - OllamaAnalyzer.analyze_with_ollama (services/ollama_analyzer.py);   *)
(*   - the on-demand view crypto_analysis (views.py);                      *)
(*   - BackgroundTaskManager (services/background_tasks.py).               *)
(* Each component has its own specification over the shared variables.     *)
(***************************************************************************)
EXTENDS Integers, Sequences, FiniteSets, TLC

VARIABLES
    now,          \* timezone.now(), in minutes
    cache,        \* APIManager.cache: key -> [data, timestamp]
    mCall,        \* the last APIManager call: operation, key, whether the cache answered
    mProviders,   \* the provider calls the last APIManager call made, in order
    mResult,      \* what the last APIManager call returned (or Raised)
    aInput,       \* the last analyze_with_ollama call: what prompt building and
                  \* client.generate did
    aResult,      \* what the last analyze_with_ollama call returned (or Raised)
    record,       \* the TechnicalAnalysis row of the asset, or None
    vCall,        \* the last crypto_analysis request: its inputs, the row it found,
                  \* whether it made the reasoning call
    running,      \* BackgroundTaskManager._running
    settings,     \* AppSettings: auto_update_prices, auto_run_analysis
    loops,        \* the loop threads: per kind, the thread the manager refers to
                  \* (cur) and an earlier one it no longer refers to (old)
    ctl,          \* the caller of start(), stop() or restart() and where it is
    lastStop,     \* the last stop(): whether it found both loops asleep and, if
                  \* so, the seconds since
    posts,        \* the number of settings POSTs so far
    store,        \* the TechnicalAnalysis rows of each asset, in insertion order
    pass,         \* the pass a loop is making over the assets: kind, assets left,
                  \* what happened to each asset, how it ended
    req,          \* a crypto_analysis request between its read of the latest row
                  \* and its write
    iCall,        \* the last get_latest_values call: the closes and the result
    managers,     \* the cache of the APIManager each call path constructed
    calls,        \* each call path's APIManager call: where it is and what it did
    row,          \* the AppSettings row (pk=1), all its fields
    cyc           \* each loop thread with its locals: the settings object it read,
                  \* its OllamaAnalyzer, what its cycle used

marketVars == <<now, cache, mCall, mProviders, mResult>>

analyzerVars == <<aInput, aResult>>

viewVars == <<record, vCall>>

schedVars == <<running, settings, loops, ctl, lastStop, posts>>

cycleVars == <<store, pass, req>>

pathVars == <<managers, calls>>

confVars == <<row, cyc>>

vars == <<now, cache, mCall, mProviders, mResult, aInput, aResult, record, vCall,
          running, settings, loops, ctl, lastStop, posts, store, pass, req, iCall,
          managers, calls, row, cyc>>

(***************************************************************************)
(* Python values                                                           *)
(***************************************************************************)
\* Python's None
None == [t |-> "None"]

\* an exception that propagates out of the call
Raised == [t |-> "Raised"]

\* a JSON number (or a numeric string, which float() accepts)
Num(n) == [t |-> "num", v |-> n]

\* a key that the JSON object does not have
Missing == [t |-> "missing"]

\* a JSON value float() rejects or that cannot be compared with 0: null, "n/a"
NonNumeric == [t |-> "nonnumeric"]

\* dict.get(key, default)
DictGet(value, default) == IF value = Missing THEN default ELSE value

\* float(x): the number, or an exception for a value that is no number
FloatOf(value) == IF value.t = "num" THEN value ELSE Raised

(***************************************************************************)
(* Symbols are strings, modelled as sequences of characters.               *)
(***************************************************************************)
\* the letters, for str.upper() and str.lower()
LowerLetters ==
    <<"a", "b", "c", "d", "e", "f", "g", "h", "i", "j", "k", "l", "m",
       "n", "o", "p", "q", "r", "s", "t", "u", "v", "w", "x", "y", "z">>

UpperLetters ==
    <<"A", "B", "C", "D", "E", "F", "G", "H", "I", "J", "K", "L", "M",
       "N", "O", "P", "Q", "R", "S", "T", "U", "V", "W", "X", "Y", "Z">>

\* the position of a character in a sequence of distinct characters, or 0
IndexOf(c, letters) ==
    IF \E i \in 1..Len(letters) : letters[i] = c
    THEN CHOOSE i \in 1..Len(letters) : letters[i] = c
    ELSE 0

\* str.upper() on one character
UpperChar(c) ==
    IF IndexOf(c, LowerLetters) > 0 THEN UpperLetters[IndexOf(c, LowerLetters)] ELSE c

\* str.lower() on one character
LowerChar(c) ==
    IF IndexOf(c, UpperLetters) > 0 THEN LowerLetters[IndexOf(c, UpperLetters)] ELSE c

\* str.lower()
Lower(s) == [i \in 1..Len(s) |-> LowerChar(s[i])]

\* sub in s
Contains(sub, s) ==
    \E i \in 0..(Len(s) - Len(sub)) : SubSeq(s, i + 1, i + Len(sub)) = sub

\* str.upper()
Upper(s) == [i \in 1..Len(s) |-> UpperChar(s[i])]

\* the characters str.strip() removes
IsWhitespace(c) == c \in {" ", "\t"}

RECURSIVE LStrip(_)
\* str.lstrip()
LStrip(s) == IF s # <<>> /\ IsWhitespace(Head(s)) THEN LStrip(Tail(s)) ELSE s

RECURSIVE RStrip(_)
\* str.rstrip()
RStrip(s) ==
    IF s # <<>> /\ IsWhitespace(s[Len(s)]) THEN RStrip(SubSeq(s, 1, Len(s) - 1)) ELSE s

\* str.strip()
Strip(s) == RStrip(LStrip(s))

\* str.replace(' ', '')
RemoveSpaces(s) == SelectSeq(s, LAMBDA c : c # " ")

\* symbol.strip().upper().replace(' ', '')
CleanSymbol(symbol) == RemoveSpaces(Upper(Strip(symbol)))

\* the symbols callers pass: BTC in several spellings, and ETH
RawSymbols ==
    { <<"B", "T", "C">>, <<"b", "t", "c">>, <<" ", "b", "t", " ", "c", " ">>,
      <<"E", "T", "H">> }

(***************************************************************************)
(* BinanceService                                                          *)
(***************************************************************************)
\* what session.get / raise_for_status / response.json produce for one request
HttpFailures == {"network_error", "http_error", "invalid_json"}

\* a 200 response whose JSON body is empty ({} or [])
EmptyBody == [t |-> "empty"]

\* a ticker/24hr body: lastPrice, highPrice, lowPrice; the other fields are
\* numeric strings of the same kind
TickerBody(last, high, low) ==
    [t |-> "ticker", lastPrice |-> last, highPrice |-> high, lowPrice |-> low,
     quoteVolume |-> Num(7), priceChange |-> Num(1), priceChangePercent |-> Num(2)]

\* the responses of the exchange to a ticker request
TickerResponses ==
    [kind : HttpFailures]
      \cup { [kind |-> "ok", body |-> EmptyBody] }
      \cup { [kind |-> "ok", body |-> TickerBody(p, Num(51), Num(49))] :
               p \in {Num(50), Num(0), Num(-1), Missing, NonNumeric} }
      \cup { [kind |-> "ok", body |-> TickerBody(Num(50), NonNumeric, Num(49))] }

\* BinanceService._make_request: the parsed body, or None for every
\* requests.exceptions.RequestException (HTTPError included; response.json()
\* raises requests' JSONDecodeError, a RequestException)
BinanceMakeRequest(resp) == IF resp.kind = "ok" THEN resp.body ELSE None

\* bool(data) for a parsed body or None
Truthy(data) == data # None /\ data # EmptyBody

\* BinanceService.get_ticker: None, the ticker dict, or the exception float()
\* raises on a field that is no number
BinanceGetTicker(resp) ==
    LET data == BinanceMakeRequest(resp) IN
    IF ~Truthy(data) THEN None
    ELSE LET price == FloatOf(DictGet(data.lastPrice, Num(0)))
             high  == FloatOf(DictGet(data.highPrice, Num(0)))
             low   == FloatOf(DictGet(data.lowPrice, Num(0)))
             qvol  == FloatOf(DictGet(data.quoteVolume, Num(0)))
             chg   == FloatOf(DictGet(data.priceChange, Num(0)))
             pct   == FloatOf(DictGet(data.priceChangePercent, Num(0)))
         IN IF Raised \in {price, high, low, qvol, chg, pct} THEN Raised
            ELSE [t |-> "ticker", price |-> price.v, high |-> high.v, low |-> low.v,
                  quote_volume |-> qvol.v, price_change |-> chg.v,
                  price_change_percent |-> pct.v]

\* a klines row: [open time, open, high, low, close, volume, close time, ...],
\* here its close; a malformed row has a field float() or "/ 1000" rejects
KlineRow(close) == [t |-> "row", close |-> close]

\* the responses of the exchange to a klines request
KlinesResponses ==
    [kind : HttpFailures]
      \cup { [kind |-> "ok", body |-> EmptyBody] }
      \cup { [kind |-> "ok", body |-> [t |-> "rows", rows |-> r]] :
               r \in { <<KlineRow(Num(50)), KlineRow(Num(52))>>,
                       <<KlineRow(Num(50)), KlineRow(NonNumeric)>> } }

\* BinanceService.get_klines: None, the list of candles, or the exception
\* float() raises on a malformed row
BinanceGetKlines(resp) ==
    LET data == BinanceMakeRequest(resp) IN
    IF ~Truthy(data) THEN None
    ELSE IF \E i \in 1..Len(data.rows) : FloatOf(data.rows[i].close) = Raised
         THEN Raised
         ELSE [t |-> "klines",
               closes |-> [i \in 1..Len(data.rows) |-> data.rows[i].close.v]]

(***************************************************************************)
(* CoinGeckoService                                                        *)
(***************************************************************************)
\* CoinGeckoService._make_request
GeckoMakeRequest(resp) == IF resp.kind = "ok" THEN resp.body ELSE None

\* a simple/price body: whether it has the coin id, and the coin's "usd"
SimplePriceBody(hasId, usd) == [t |-> "simple_price", hasId |-> hasId, usd |-> usd]

\* the responses of the aggregator to a simple/price request
GeckoPriceResponses ==
    [kind : HttpFailures]
      \cup { [kind |-> "ok", body |-> EmptyBody] }
      \cup { [kind |-> "ok", body |-> SimplePriceBody(FALSE, Num(48))] }
      \cup { [kind |-> "ok", body |-> SimplePriceBody(TRUE, u)] :
               u \in {Num(48), Num(0), Missing, NonNumeric} }

\* CoinGeckoService.get_current_price: None, or the price dict with the
\* body's "usd" as it is (no conversion)
GeckoGetCurrentPrice(resp) ==
    LET data == GeckoMakeRequest(resp) IN
    IF Truthy(data) /\ data.hasId
    THEN [t |-> "gecko_price", price |-> DictGet(data.usd, Num(0)),
          change_24h |-> Num(3), volume_24h |-> Num(9)]
    ELSE None

\* a market_chart body: the "prices" list (absent in some bodies)
GeckoHistoryResponses ==
    [kind : HttpFailures]
      \cup { [kind |-> "ok", body |-> EmptyBody] }
      \cup { [kind |-> "ok", body |-> [t |-> "chart", prices |-> p]] :
               p \in { <<Num(47), Num(48)>>, <<>>, <<Num(47), NonNumeric>> } }

\* CoinGeckoService.get_historical_data: None, the prices dict, or the
\* exception "item[0] / 1000" raises on a malformed item
GeckoGetHistoricalData(resp) ==
    LET data == GeckoMakeRequest(resp) IN
    IF ~Truthy(data) THEN None
    ELSE IF \E i \in 1..Len(data.prices) : data.prices[i].t # "num"
         THEN Raised
         ELSE [t |-> "gecko_history",
               prices |-> [i \in 1..Len(data.prices) |-> data.prices[i].v]]

\* a coins/{id} body: whether it has "market_data", and market_data.current_price
\* (a dict of currencies, or null)
GeckoMarketResponses ==
    [kind : HttpFailures]
      \cup { [kind |-> "ok", body |-> EmptyBody] }
      \cup { [kind |-> "ok", body |-> [t |-> "coin", hasMarketData |-> h, current_price |-> c]] :
               h \in BOOLEAN, c \in {Num(48), Missing, NonNumeric} }

\* CoinGeckoService.get_market_data: None, the market dict, or the exception
\* .get raises when market_data.current_price is not a dict
GeckoGetMarketData(resp) ==
    LET data == GeckoMakeRequest(resp) IN
    IF Truthy(data) /\ data.hasMarketData
    THEN IF data.current_price = NonNumeric THEN Raised
         ELSE [t |-> "gecko_market",
               current_price |-> DictGet(data.current_price, Num(0)).v,
               high_24h |-> 49, low_24h |-> 47, price_change_24h |-> 1,
               price_change_percentage_24h |-> 2, total_volume |-> 9, market_cap |-> 99]
    ELSE None

(***************************************************************************)
(* APIManager                                                              *)
(***************************************************************************)
\* cache_duration = timedelta(minutes=5)
CacheDuration == 5

\* a cache key: f"price_{symbol}", f"market_{symbol}", f"historical_{symbol}_{days}"
CacheKey(kind, symbol, days) == [kind |-> kind, symbol |-> symbol, days |-> days]

\* _get_from_cache with the age comparison inverted
CacheGetInverted(c, key, t) ==
    IF key \in DOMAIN c /\ t - c[key].timestamp > CacheDuration
    THEN c[key].data
    ELSE None

\* APIManager._get_from_cache: the value it returns
CacheGet(c, key, t) ==
    IF key \in DOMAIN c /\ t - c[key].timestamp < CacheDuration
    THEN c[key].data
    ELSE None

\* _get_from_cache that leaves an expired entry in place
CacheAfterGetKeeps(c, key, t) == c

\* APIManager._get_from_cache: the cache it leaves (an expired entry is deleted)
CacheAfterGet(c, key, t) ==
    IF key \in DOMAIN c /\ ~(t - c[key].timestamp < CacheDuration)
    THEN [k \in DOMAIN c \ {key} |-> c[k]]
    ELSE c

\* APIManager._set_cache
SetCache(c, key, data, t) ==
    [k \in DOMAIN c \cup {key} |->
        IF k = key THEN [data |-> data, timestamp |-> t] ELSE c[k]]

\* how a provider call ended, as the caller sees it: it raised, returned None,
\* or returned data (for a price: not a number, > 0, or <= 0)
Got(r) ==
    IF r = Raised THEN "raised"
    ELSE IF r = None THEN "none"
    ELSE IF r.t = "gecko_price" /\ r.price.t # "num" THEN "nonnumeric"
    ELSE IF r.t = "gecko_price" THEN (IF r.price.v > 0 THEN "positive" ELSE "nonpositive")
    ELSE IF r.t = "ticker" THEN (IF r.price > 0 THEN "positive" ELSE "nonpositive")
    ELSE "data"

\* the record of one provider call
Called(provider, r) == [provider |-> provider, got |-> Got(r)]

\* the key get_current_price uses for a symbol
PriceKey(symbol) == CacheKey("price", CleanSymbol(symbol), 0)

\* APIManager.get_current_price: what it returns, the cache it leaves and the
\* providers it called; ticker is what binance.get_ticker returns (or raises)
\* when called, gecko what coingecko.get_current_price returns when called
CurrentPriceOutcome(c, t, symbol, ticker, gecko) ==
    LET key    == PriceKey(symbol)
        cached == CacheGet(c, key, t)
        c1     == CacheAfterGet(c, key, t)
    IN  IF cached # None
        THEN [result |-> cached, cache |-> c1, providers |-> <<>>, hit |-> TRUE]
        ELSE IF ticker = Raised
        THEN [result |-> Raised, cache |-> c1, providers |-> <<Called("binance", ticker)>>, hit |-> FALSE]
        ELSE IF ticker # None /\ ticker.price > 0
        THEN LET result == [t |-> "price", price |-> ticker.price, source |-> "binance",
                            high_24h |-> ticker.high, low_24h |-> ticker.low,
                            volume_24h |-> ticker.quote_volume,
                            change_24h |-> ticker.price_change_percent]
             IN [result |-> result, cache |-> SetCache(c1, key, result, t),
                 providers |-> <<Called("binance", ticker)>>, hit |-> FALSE]
        ELSE IF gecko # None /\ gecko.price.t # "num"
        THEN [result |-> Raised, cache |-> c1,
              providers |-> <<Called("binance", ticker), Called("coingecko", gecko)>>, hit |-> FALSE]
        ELSE IF gecko # None /\ gecko.price.v > 0
        THEN LET result == [t |-> "price", price |-> gecko.price.v, source |-> "coingecko",
                            high_24h |-> 0, low_24h |-> 0,
                            volume_24h |-> gecko.volume_24h.v,
                            change_24h |-> gecko.change_24h.v]
             IN [result |-> result, cache |-> SetCache(c1, key, result, t),
                 providers |-> <<Called("binance", ticker), Called("coingecko", gecko)>>, hit |-> FALSE]
        ELSE [result |-> None, cache |-> c1,
              providers |-> <<Called("binance", ticker), Called("coingecko", gecko)>>, hit |-> FALSE]

\* interval_map.get(days, '1d')
KlineInterval(days) ==
    CASE days = 1 -> "1h"
      [] days = 7 -> "4h"
      [] days = 30 -> "1d"
      [] OTHER -> "1d"

\* min(a, b)
Min(a, b) == IF a < b THEN a ELSE b

\* min(days * 24 if interval == '1h' else days, 100)
KlineLimit(days) == Min(IF KlineInterval(days) = "1h" THEN days * 24 ELSE days, 100)

\* the record of binance.get_klines(symbol_clean, interval=interval, limit=limit)
KlinesCalled(days, kl) ==
    [provider |-> "binance", got |-> Got(kl),
     interval |-> KlineInterval(days), limit |-> KlineLimit(days)]

\* the key get_historical_data uses
HistoricalKey(symbol, days) == CacheKey("historical", CleanSymbol(symbol), days)

\* APIManager.get_historical_data
HistoricalOutcome(c, t, symbol, days, kl, hist) ==
    LET key    == HistoricalKey(symbol, days)
        cached == CacheGet(c, key, t)
        c1     == CacheAfterGet(c, key, t)
        klines == IF days <= 30 THEN kl ELSE None
        tried  == IF days <= 30 THEN <<KlinesCalled(days, kl)>> ELSE <<>>
    IN  IF cached # None
        THEN [result |-> cached, cache |-> c1, providers |-> <<>>, hit |-> TRUE]
        ELSE IF klines = Raised
        THEN [result |-> Raised, cache |-> c1, providers |-> tried, hit |-> FALSE]
        ELSE IF klines # None
        THEN LET result == [t |-> "historical", data |-> klines, source |-> "binance"]
             IN [result |-> result, cache |-> SetCache(c1, key, result, t),
                 providers |-> tried, hit |-> FALSE]
        ELSE IF hist = Raised
        THEN [result |-> Raised, cache |-> c1,
              providers |-> tried \o <<Called("coingecko", hist)>>, hit |-> FALSE]
        ELSE IF hist # None
        THEN LET result == [t |-> "historical", data |-> hist, source |-> "coingecko"]
             IN [result |-> result, cache |-> SetCache(c1, key, result, t),
                 providers |-> tried \o <<Called("coingecko", hist)>>, hit |-> FALSE]
        ELSE [result |-> None, cache |-> c1,
              providers |-> tried \o <<Called("coingecko", hist)>>, hit |-> FALSE]

\* the key get_market_data uses
MarketKey(symbol) == CacheKey("market", CleanSymbol(symbol), 0)

\* APIManager.get_market_data
MarketDataOutcome(c, t, symbol, ticker, market) ==
    LET key    == MarketKey(symbol)
        cached == CacheGet(c, key, t)
        c1     == CacheAfterGet(c, key, t)
    IN  IF cached # None
        THEN [result |-> cached, cache |-> c1, providers |-> <<>>, hit |-> TRUE]
        ELSE IF ticker = Raised
        THEN [result |-> Raised, cache |-> c1, providers |-> <<Called("binance", ticker)>>, hit |-> FALSE]
        ELSE IF ticker # None
        THEN LET result == [t |-> "market", current_price |-> ticker.price,
                            high_24h |-> ticker.high, low_24h |-> ticker.low,
                            volume_24h |-> ticker.quote_volume,
                            price_change_24h |-> ticker.price_change,
                            price_change_percentage_24h |-> ticker.price_change_percent,
                            source |-> "binance"]
             IN [result |-> result, cache |-> SetCache(c1, key, result, t),
                 providers |-> <<Called("binance", ticker)>>, hit |-> FALSE]
        ELSE IF market = Raised
        THEN [result |-> Raised, cache |-> c1,
              providers |-> <<Called("binance", ticker), Called("coingecko", market)>>, hit |-> FALSE]
        ELSE IF market # None
        THEN LET result == [t |-> "market", current_price |-> market.current_price,
                            high_24h |-> market.high_24h, low_24h |-> market.low_24h,
                            price_change_24h |-> market.price_change_24h,
                            price_change_percentage_24h |-> market.price_change_percentage_24h,
                            total_volume |-> market.total_volume,
                            market_cap |-> market.market_cap,
                            source |-> "coingecko"]
             IN [result |-> result, cache |-> SetCache(c1, key, result, t),
                 providers |-> <<Called("binance", ticker), Called("coingecko", market)>>, hit |-> FALSE]
        ELSE [result |-> None, cache |-> c1,
              providers |-> <<Called("binance", ticker), Called("coingecko", market)>>, hit |-> FALSE]

\* the clock bound of the market specifications
MaxNow == 6

\* the history window callers ask for under all three calls (the other windows
\* are those of HistoryWindows)
HistoryDays == {7}

\* the lookup of a call deleted the entry of its key
Evicted(c, key, t) == key \in DOMAIN c /\ key \notin DOMAIN CacheAfterGet(c, key, t)

\* before any call
NoCall == [op |-> "none", key |-> CacheKey("none", <<>>, 0), hit |-> FALSE,
           evicted |-> FALSE]

\* APIManager.__init__: an empty cache
InitMarket ==
    /\ now = 0
    /\ cache = << >>
    /\ mCall = NoCall
    /\ mProviders = <<>>
    /\ mResult = None

\* a minute passes
Tick ==
    /\ now < MaxNow
    /\ now' = now + 1
    /\ UNCHANGED <<cache, mCall, mProviders, mResult>>
    /\ UNCHANGED <<analyzerVars, viewVars, schedVars, cycleVars, iCall, pathVars, confVars>>

\* a caller's api_manager.get_current_price(symbol)
GetCurrentPrice(symbol, ticker, gecko) ==
    LET out == CurrentPriceOutcome(cache, now, symbol, ticker, gecko) IN
    /\ cache' = out.cache
    /\ mCall' = [op |-> "get_current_price", key |-> PriceKey(symbol), hit |-> out.hit,
                 evicted |-> Evicted(cache, PriceKey(symbol), now)]
    /\ mProviders' = out.providers
    /\ mResult' = out.result
    /\ UNCHANGED now
    /\ UNCHANGED <<analyzerVars, viewVars, schedVars, cycleVars, iCall, pathVars, confVars>>

\* a caller's api_manager.get_historical_data(symbol, days)
GetHistoricalData(symbol, days, klines, hist) ==
    LET out == HistoricalOutcome(cache, now, symbol, days, klines, hist) IN
    /\ cache' = out.cache
    /\ mCall' = [op |-> "get_historical_data", key |-> HistoricalKey(symbol, days),
                 hit |-> out.hit, evicted |-> Evicted(cache, HistoricalKey(symbol, days), now)]
    /\ mProviders' = out.providers
    /\ mResult' = out.result
    /\ UNCHANGED now
    /\ UNCHANGED <<analyzerVars, viewVars, schedVars, cycleVars, iCall, pathVars, confVars>>

\* a caller's api_manager.get_market_data(symbol)
GetMarketData(symbol, ticker, market) ==
    LET out == MarketDataOutcome(cache, now, symbol, ticker, market) IN
    /\ cache' = out.cache
    /\ mCall' = [op |-> "get_market_data", key |-> MarketKey(symbol), hit |-> out.hit,
                 evicted |-> Evicted(cache, MarketKey(symbol), now)]
    /\ mProviders' = out.providers
    /\ mResult' = out.result
    /\ UNCHANGED now
    /\ UNCHANGED <<analyzerVars, viewVars, schedVars, cycleVars, iCall, pathVars, confVars>>

(***************************************************************************)
(* OllamaAnalyzer.analyze_with_ollama                                      *)
(* Texts (the reply of the reasoning service, exception messages) are      *)
(* sequences of characters.                                                *)
(***************************************************************************)
\* a JSON string
Str(chars) == [t |-> "str", chars |-> chars]

\* JSON null
Null == [t |-> "null"]

\* the float nan (json.loads accepts the literal NaN)
NaN == [t |-> "nan"]

\* an exception with its class (what failed) and str(e)
Exc(class, msg) == [t |-> "exc", class |-> class, msg |-> msg]

\* the decimal digits
DigitChars == <<"0", "1", "2", "3", "4", "5", "6", "7", "8", "9">>

RECURSIVE ParseInt(_)
\* int() of a non-empty sequence of digits
ParseInt(chars) ==
    IF chars = <<>> THEN 0
    ELSE 10 * ParseInt(SubSeq(chars, 1, Len(chars) - 1))
           + (IndexOf(chars[Len(chars)], DigitChars) - 1)

RECURSIVE FormatNat(_)
\* str() of a natural number
FormatNat(n) ==
    IF n < 10 THEN <<DigitChars[n + 1]>>
    ELSE FormatNat(n \div 10) \o <<DigitChars[(n % 10) + 1]>>

\* str() of an integer
FormatInt(n) == IF n < 0 THEN <<"-">> \o FormatNat(-n) ELSE FormatNat(n)

\* every character of a non-empty text is a digit
AllDigits(chars) ==
    chars # <<>> /\ \A i \in 1..Len(chars) : IndexOf(chars[i], DigitChars) > 0

RECURSIVE RunEnd(_, _, _)
\* the first index from j on whose character is not in the set (Len + 1 if none)
RunEnd(text, j, set) ==
    IF j <= Len(text) /\ text[j] \in set THEN RunEnd(text, j + 1, set) ELSE j

\* the characters of the class [:\s]
ConfidenceSeparators == {":", " ", "\t", "\n"}

\* the set of digit characters
DigitSet == { DigitChars[i] : i \in 1..Len(DigitChars) }

\* where re.search(r'confidence[:\s]+(\d+)', text, re.IGNORECASE) can match:
\* the word, then separators, then digits
ConfidenceMatchAt(text, i) ==
    LET word == <<"c", "o", "n", "f", "i", "d", "e", "n", "c", "e">>
        j == i + Len(word)
        k == RunEnd(text, j, ConfidenceSeparators)
    IN  /\ i + Len(word) - 1 <= Len(text)
        /\ Lower(SubSeq(text, i, j - 1)) = word
        /\ k > j
        /\ RunEnd(text, k, DigitSet) > k

\* int(confidence_match.group(1)) of the leftmost match, as a JSON number, or
\* Missing when the pattern does not match
ConfidenceFromText(text) ==
    LET starts == { i \in 1..Len(text) : ConfidenceMatchAt(text, i) } IN
    IF starts = {} THEN Missing
    ELSE LET i == CHOOSE x \in starts : \A y \in starts : x <= y
             k == RunEnd(text, i + 10, ConfidenceSeparators)
         IN Num(ParseInt(SubSeq(text, k, RunEnd(text, k, DigitSet) - 1)))

\* the recommendations, upper case
BUY == <<"B", "U", "Y">>

SELL == <<"S", "E", "L", "L">>

HOLD == <<"H", "O", "L", "D">>

\* a keyword parser that looks for SELL first and has no default confidence
ParseResponseFallbackSellFirst(text) ==
    [recommendation |->
        IF Contains(SELL, Upper(text)) THEN Str(SELL)
        ELSE IF Contains(BUY, Upper(text)) THEN Str(BUY)
        ELSE Str(HOLD),
     confidence_score |-> DictGet(ConfidenceFromText(text), Num(0)),
     reasoning |-> "response_text"]

\* OllamaAnalyzer._parse_response_fallback
ParseResponseFallback(text) ==
    [recommendation |->
        IF Contains(BUY, Upper(text)) THEN Str(BUY)
        ELSE IF Contains(SELL, Upper(text)) THEN Str(SELL)
        ELSE Str(HOLD),
     confidence_score |-> DictGet(ConfidenceFromText(text), Num(50)),
     reasoning |-> "response_text"]

\* the text "recommendation" in double quotes
QuotedRecommendation == <<"\"", "r", "e", "c", "o", "m", "m", "e", "n", "d", "a", "t", "i", "o", "n", "\"">>

\* re.search(r'\{[^{}]*"recommendation"[^{}]*\}', text, re.DOTALL) matches:
\* some "{" is followed, before any other brace, by the quoted key and then "}"
JsonMatch(text) ==
    \E i \in 1..Len(text) :
        /\ text[i] = "{"
        /\ LET j == RunEnd(text, i + 1, { text[n] : n \in 1..Len(text) } \ {"{", "}"})
           IN j <= Len(text) /\ text[j] = "}"
                /\ Contains(QuotedRecommendation, SubSeq(text, i + 1, j - 1))

\* json.loads fails on the matched text
DecodeError == [t |-> "decode_error"]

\* the dict json.loads returns for the matched text: its "recommendation",
\* "confidence_score" and whether it has "reasoning"
Decoded(rec, conf, hasReasoning) ==
    [t |-> "dict", recommendation |-> rec, confidence_score |-> conf,
     hasReasoning |-> hasReasoning]

\* a reply of the reasoning service: its text, and what json.loads makes of the
\* part of it the pattern matches
Reply(text, decoded) == [t |-> "reply", text |-> text, decoded |-> decoded]

\* float(x) for a confidence: a JSON number or nan as it is, a string of
\* digits as its number; ValueError or TypeError for anything else
FloatOfConfidence(value) ==
    IF value.t \in {"num", "nan"} THEN value
    ELSE IF value.t = "str" /\ AllDigits(value.chars) THEN Num(ParseInt(value.chars))
    ELSE IF value.t = "str"
    THEN Exc("other", <<"c", "o", "u", "l", "d", " ", "n", "o", "t", " ", "c", "o", "n", "v", "e", "r", "t",
      " ", "s", "t", "r", "i", "n", "g", " ", "t", "o", " ", "f", "l", "o", "a", "t",
      ":", " ">> \o <<"'">> \o value.chars \o <<"'">>)
    ELSE Exc("other", <<"f", "l", "o", "a", "t", "(", ")", " ", "a", "r", "g", "u", "m", "e", "n", "t", " ",
      "m", "u", "s", "t", " ", "b", "e", " ", "a", " ", "s", "t", "r", "i", "n", "g",
      " ", "o", "r", " ", "a", " ", "r", "e", "a", "l", " ", "n", "u", "m", "b", "e",
      "r">>)

\* a < b on floats; every comparison with nan is false
FloatLess(a, b) == a.t = "num" /\ b.t = "num" /\ a.v < b.v

\* the confidence passed on as the service gave it
ClampConfidenceNone(confidence) == confidence

\* max(0, min(100, confidence)) with Python's min and max: the first argument
\* stays unless the second is smaller (larger)
ClampConfidence(confidence) ==
    LET m == IF FloatLess(confidence, Num(100)) THEN confidence ELSE Num(100)
    IN  IF FloatLess(Num(0), m) THEN m ELSE Num(0)

\* the upper-cased value kept whatever it is
NormalizeRecommendationUnchecked(chars) == Upper(chars)

\* the upper-cased value matched by substring, BUY first
NormalizeRecommendationSubstring(chars) ==
    IF Contains(BUY, Upper(chars)) THEN BUY
    ELSE IF Contains(SELL, Upper(chars)) THEN SELL
    ELSE HOLD

\* lines 196-198: upper-case the value; anything but BUY, SELL, HOLD is HOLD
NormalizeRecommendation(chars) ==
    IF Upper(chars) \in {BUY, SELL, HOLD} THEN Upper(chars) ELSE HOLD

\* the result dict of analyze_with_ollama
Analysis(recommendation, confidence, reasoning) ==
    [t |-> "analysis", recommendation |-> recommendation,
     confidence_score |-> confidence, reasoning |-> reasoning]

\* lines 183-211: parse the reply, normalize the recommendation, clamp the
\* confidence; the result dict, or the exception raised on the way
InterpretReply(reply) ==
    LET useJson == JsonMatch(reply.text) /\ reply.decoded.t = "dict"
        result  == IF useJson THEN reply.decoded ELSE ParseResponseFallback(reply.text)
        rec     == DictGet(result.recommendation, Str(HOLD))
        recommendation == NormalizeRecommendation(rec.chars)
        confidence == FloatOfConfidence(DictGet(result.confidence_score, Num(50)))
        reasoning  == IF useJson
                      THEN (IF result.hasReasoning THEN "model" ELSE "response_text")
                      ELSE result.reasoning
    IN  IF rec.t # "str" THEN Exc("other", <<"o", "b", "j", "e", "c", "t", " ", "h", "a", "s", " ", "n", "o", " ", "a", "t", "t",
      "r", "i", "b", "u", "t", "e", " ", "'", "u", "p", "p", "e", "r", "'">>)
        ELSE IF confidence.t = "exc" THEN confidence
        ELSE Analysis(Lower(recommendation), ClampConfidence(confidence),
                      [kind |-> reasoning, msg |-> <<>>])

\* prompt building succeeded / client.generate was not reached
Ok == [t |-> "ok"]

\* the try block, lines 166-211: the result dict, or the exception
AnalyzeTry(env) ==
    IF env.prompt.t = "exc" THEN env.prompt
    ELSE IF env.generate.t = "exc" THEN env.generate
    ELSE InterpretReply(env.generate)

\* an except block that handles connection errors only and re-raises the rest
ExceptHandlerReraise(msg) ==
    IF Contains(<<"c", "o", "n", "n", "e", "c", "t", "i", "o", "n">>, Lower(msg))
    THEN [t |-> "analysis", recommendation |-> <<"h", "o", "l", "d">>,
          confidence_score |-> Num(0),
          reasoning |-> [kind |-> "service_unavailable", msg |-> <<>>]]
    ELSE Raised

\* the except block, lines 213-231
ExceptHandler(msg) ==
    IF Contains(<<"1", "0", "0", "6", "1">>, msg) \/ Contains(<<"c", "o", "n", "n", "e", "c", "t", "i", "o", "n">>, Lower(msg))
    THEN Analysis(Lower(HOLD), Num(0), [kind |-> "service_unavailable", msg |-> <<>>])
    ELSE Analysis(Lower(HOLD), Num(0), [kind |-> "other_error", msg |-> msg])

\* OllamaAnalyzer.analyze_with_ollama
AnalyzeWithOllama(env) ==
    LET r == AnalyzeTry(env) IN
    IF r.t = "exc" THEN ExceptHandler(r.msg) ELSE r

\* the "recommendation" values a reply's JSON object can carry
RecommendationValues ==
    { Str(BUY), Str(<<"b", "u", "y">>), Str(<<"S", "e", "l", "l">>), Str(HOLD), Str(<<"S", "T", "R", "O", "N", "G", "_", "B", "U", "Y">>),
      Str(<<"s", "t", "r", "o", "n", "g", " ", "b", "u", "y">>), Str(<<"W", "A", "I", "T">>), Str(<<>>), Null, Missing }

\* the "confidence_score" values a reply's JSON object can carry
ConfidenceValues ==
    { Num(-5), Num(0), Num(85), Num(100), Num(150), NaN, Str(<<"8", "5">>), Str(<<"h", "i", "g", "h">>),
      Str(<<"n", "o", " ", "c", "o", "n", "n", "e", "c", "t", "i", "o", "n">>), Null, Missing }

\* a JSON value as the reply's text shows it
RenderJson(value) ==
    CASE value.t = "str" -> <<"\"">> \o value.chars \o <<"\"">>
      [] value.t = "num" -> FormatInt(value.v)
      [] value.t = "nan" -> <<"N", "a", "N">>
      [] OTHER -> <<"n", "u", "l", "l">>

\* the text of a reply that is one flat JSON object; without a recommendation
\* key the quoted word appears as a value; a trailing comma breaks the JSON
JsonText(rec, conf, hasReasoning, broken) ==
    <<"{">>
      \o (IF rec = Missing
          THEN <<"\"", "n", "o", "t", "e", "\"", ":", " ", "\"", "r", "e", "c", "o", "m", "m",
          "e", "n", "d", "a", "t", "i", "o", "n", "\"">>
          ELSE QuotedRecommendation \o <<":", " ">> \o RenderJson(rec))
      \o (IF conf = Missing THEN <<>>
          ELSE <<",", " ", "\"", "c", "o", "n", "f", "i", "d", "e", "n", "c", "e", "_", "s", "c",
          "o", "r", "e", "\"", ":", " ">> \o RenderJson(conf))
      \o (IF hasReasoning THEN <<",", " ", "\"", "r", "e", "a", "s", "o", "n", "i", "n", "g", "\"", ":", " ",
          "\"", "o", "k", "\"">> ELSE <<>>)
      \o (IF broken THEN <<",">> ELSE <<>>)
      \o <<"}">>

\* the replies that carry a JSON object json.loads accepts
JsonReplies ==
    { Reply(JsonText(rec, conf, hr, FALSE), Decoded(rec, conf, hr)) :
        rec \in RecommendationValues, conf \in ConfidenceValues, hr \in BOOLEAN }

\* the replies whose JSON-shaped part json.loads rejects
BrokenJsonReplies ==
    { Reply(JsonText(rec, conf, FALSE, TRUE), DecodeError) :
        rec \in {Str(<<"S", "e", "l", "l">>), Str(<<"S", "T", "R", "O", "N", "G", "_", "B", "U", "Y">>), Str(<<"W", "A", "I", "T">>)},
        conf \in {Num(85), Missing} }

\* the replies that are free text, with nothing the JSON pattern matches
TextReplies ==
    { Reply(text, DecodeError) :
        text \in { BUY, <<"I", " ", "w", "o", "u", "l", "d", " ", "s", "e", "l", "l">>, <<"S", "T", "R", "O", "N", "G", "_", "B", "U", "Y">>, <<"w", "a", "i", "t", " ", "a", "n", "d", " ", "s", "e", "e">>,
                   <<"B", "u", "y", ".", " ", "C", "o", "n", "f", "i", "d", "e", "n", "c", "e", ":",
          " ", "8", "5">>,
                   <<"S", "E", "L", "L", " ", "c", "o", "n", "f", "i", "d", "e", "n", "c", "e", " ",
          "1", "5", "0">>,
                   <<"h", "o", "l", "d", ",", " ", "c", "o", "n", "f", "i", "d", "e", "n", "c", "e",
          ":", "h", "i", "g", "h">>,
                   <<"d", "o", " ", "n", "o", "t", " ", "s", "e", "l", "l", ",", " ", "b", "u", "y">>,
                   <<>> } }

\* what client.generate raises: the reasoning service refuses the connection
\* or times out (connectivity), or answers with an error (other)
GenerateErrors ==
    { Exc("connectivity", <<"[", "E", "r", "r", "n", "o", " ", "1", "1", "1", "]", " ", "C", "o", "n", "n",
          "e", "c", "t", "i", "o", "n", " ", "r", "e", "f", "u", "s", "e", "d">>),
      Exc("connectivity", <<"[", "W", "i", "n", "E", "r", "r", "o", "r", " ", "1", "0", "0", "6", "1", "]",
          " ", "r", "e", "f", "u", "s", "e", "d">>),
      Exc("other", <<"l", "l", "m", " ", "r", "e", "s", "p", "o", "n", "s", "e", ":", " ", "c", "o", "n", "n", "e", "c", "t", "i", "o", "n", " ", "c", "l", "o", "s", "e", "d", " ", "b", "y", " ", "r", "u", "n", "n", "e", "r">>),
      Exc("connectivity", <<"[", "E", "r", "r", "n", "o", " ", "1", "1", "0", "]", " ", "C", "o", "n", "n",
          "e", "c", "t", "i", "o", "n", " ", "t", "i", "m", "e", "d", " ", "o",
          "u", "t">>),
      Exc("other", <<"m", "o", "d", "e", "l", " ", "'", "p", "l", "u", "t", "u", "s", "'", " ", "n",
          "o", "t", " ", "f", "o", "u", "n", "d">>) }

\* what building the prompt raises when a value cannot be formatted
PromptErrors ==
    { Exc("other", <<"u", "n", "s", "u", "p", "p", "o", "r", "t", "e", "d", " ", "f", "o", "r", "m",
          "a", "t", " ", "s", "t", "r", "i", "n", "g">>) }

\* before any call
NoInput == [t |-> "none"]

\* one call's environment: what prompt building does and what client.generate
\* answers or raises (Ok when it is not reached)
Env(prompt, generate) == [t |-> "env", prompt |-> prompt, generate |-> generate]

\* the environments of analyze_with_ollama
AnalyzerEnvs ==
    { Env(e, Ok) : e \in PromptErrors }
      \cup { Env(Ok, g) : g \in GenerateErrors \cup JsonReplies \cup BrokenJsonReplies
                                  \cup TextReplies }

\* no call made yet
InitAnalyzer ==
    /\ aInput = NoInput
    /\ aResult = None

\* a caller's ollama_analyzer.analyze_with_ollama(indicators, symbol, price)
Analyze(env) ==
    /\ aInput' = env
    /\ aResult' = AnalyzeWithOllama(env)
    /\ UNCHANGED <<marketVars, viewVars, schedVars, cycleVars, iCall, pathVars, confVars>>

\* what binance.get_ticker can return or raise
TickerOutcomes == { BinanceGetTicker(resp) : resp \in TickerResponses }

\* what binance.get_klines can return or raise
KlinesOutcomes == { BinanceGetKlines(resp) : resp \in KlinesResponses }

\* what coingecko.get_current_price can return
GeckoPriceOutcomes == { GeckoGetCurrentPrice(resp) : resp \in GeckoPriceResponses }

\* what coingecko.get_historical_data can return or raise
GeckoHistoryOutcomes == { GeckoGetHistoricalData(resp) : resp \in GeckoHistoryResponses }

\* what coingecko.get_market_data can return or raise
GeckoMarketOutcomes == { GeckoGetMarketData(resp) : resp \in GeckoMarketResponses }

\* the symbols of the specification of all three calls: BTC in two spellings
MarketSymbols == { <<"B", "T", "C">>, <<" ", "b", "t", " ", "c", " ">> }

(***************************************************************************)
(* The on-demand view crypto_analysis (views.py)                           *)
(* Times are minutes; prices are whole units.                              *)
(***************************************************************************)
\* |x|
Abs(x) == IF x < 0 THEN -x ELSE x

\* timedelta(hours=1), in minutes
AnalysisMaxAge == 60

\* the price changed by more than 2%: abs((current - old) / old) * 100 > 2.0
PriceChanged(current_price, old_price) ==
    Abs(current_price - old_price) * 100 > 2 * old_price

\* should_update without the price check
ShouldUpdateByAgeOnly(latest_analysis, force_update, current_price, t) ==
    latest_analysis = None \/ force_update
      \/ t - latest_analysis.analysis_date > AnalysisMaxAge

\* lines 295-314: should_update
ShouldUpdate(latest_analysis, force_update, current_price, t) ==
    IF latest_analysis = None THEN TRUE
    ELSE IF force_update THEN TRUE
    ELSE IF t - latest_analysis.analysis_date > AnalysisMaxAge THEN TRUE
    ELSE latest_analysis.current_price > 0
           /\ PriceChanged(current_price, latest_analysis.current_price)

\* a TechnicalAnalysis row: analysis_date, the current_price of its indicators,
\* recommendation, confidence_score, ollama_reasoning
Record(analysis_date, current_price, result) ==
    [t |-> "record", analysis_date |-> analysis_date, current_price |-> current_price,
     recommendation |-> result.recommendation,
     confidence_score |-> result.confidence_score,
     ollama_reasoning |-> result.reasoning]

\* what api_manager.get_current_price returns to the view: a price dict
PriceData(p) == [t |-> "price", price |-> p]

\* the prices of the view's specification
ViewPrices == {100, 102, 103}

\* what get_current_price gives the view: a price dict, None, or an exception
ViewPriceResults == {None, Raised} \cup { PriceData(p) : p \in ViewPrices }

\* what get_historical_data gives the view: an exception, None, data without
\* rows (empty DataFrame), data with rows
ViewHistoryResults == {"raised", "none", "empty", "rows"}

\* what the reasoning service does when the view calls it
ViewEnvs ==
    { Env(Ok, Reply(JsonText(Str(BUY), Num(85), TRUE, FALSE),
                    Decoded(Str(BUY), Num(85), TRUE))),
      Env(Ok, Exc("connectivity", <<"C", "o", "n", "n", "e", "c", "t", "i", "o", "n", " ",
                                     "r", "e", "f", "u", "s", "e", "d">>)) }

\* line 286: float(price_data['price']) if price_data and price_data.get('price') else 0.0
CurrentPriceOf(price_data) ==
    IF price_data # None /\ price_data.price # 0 THEN price_data.price ELSE 0

\* before any request
NoRequest == [t |-> "none"]

\* no row, no request yet
InitView ==
    /\ record = None
    /\ vCall = NoRequest

\* the clock bound of the view's specification, in minutes
MaxViewNow == 120

\* half an hour passes
TickView ==
    /\ now + 30 <= MaxViewNow
    /\ now' = now + 30
    /\ UNCHANGED <<cache, mCall, mProviders, mResult, analyzerVars, viewVars, schedVars, cycleVars, iCall, pathVars, confVars>>

\* a served request that also resets the confidence
RefreshIndicatorsAndConfidence(latest_analysis, current_price) ==
    [latest_analysis EXCEPT !.current_price = current_price, !.confidence_score = Num(0)]

\* lines 418-421: latest_analysis.indicators = indicators_data;
\* latest_analysis.save(update_fields=['indicators'])
RefreshIndicators(latest_analysis, current_price) ==
    [latest_analysis EXCEPT !.current_price = current_price]

\* GET crypto_analysis with or without refresh=1: the lookups of a new
\* APIManager, should_update, the indicator snapshot (there is one when the
\* history has rows), the reasoning call and the save
CryptoAnalysis(force_update, price_data, history, env) ==
    LET raised        == price_data = Raised \/ history = "raised"
        current_price == IF raised THEN 0 ELSE CurrentPriceOf(price_data)
        should_update == ~raised /\ ShouldUpdate(record, force_update, current_price, now)
        snapshot      == ~raised /\ history = "rows"
        analyze       == snapshot /\ should_update
    IN  /\ vCall' = [t |-> "request", at |-> now, refresh |-> force_update,
                     raised |-> raised, current_price |-> current_price,
                     history |-> history, before |-> record, called |-> analyze]
        /\ record' = IF analyze
                     THEN Record(now, current_price, AnalyzeWithOllama(env))
                     ELSE IF snapshot /\ record # None
                     THEN RefreshIndicators(record, current_price)
                     ELSE record
        /\ UNCHANGED <<marketVars, analyzerVars, schedVars, cycleVars, iCall, pathVars, confVars>>

NextView ==
    \/ TickView
    \/ \E force_update \in BOOLEAN, price_data \in ViewPriceResults,
          history \in ViewHistoryResults, env \in ViewEnvs :
            CryptoAnalysis(force_update, price_data, history, env)

(***************************************************************************)
(* BackgroundTaskManager (services/background_tasks.py)                    *)
(***************************************************************************)
\* the two loops
LoopKinds == {"price", "analysis"}

\* the requests that can run start(), stop(), restart() at the same time
Callers == {1, 2}

\* join(timeout=5), in seconds
JoinTimeout == 5

\* the settings POSTs and other edits of the settings of a behaviour
MaxPosts == 3

\* the seconds counted since a stop() that found both loops asleep
MaxStopAge == 6

\* a thread: where it is, whether the last stop() found it in the
\* time.sleep(1) of its interval wait, and whether the last stop() found it
\* in the sleep of its except branch
Thread(pc, asleepAtStop) ==
    [pc |-> pc, asleepAtStop |-> asleepAtStop, backoffAtStop |-> FALSE]

\* no thread (the reference is None)
NoThread == Thread("none", FALSE)

\* threading.Thread.is_alive
Alive(thread) == thread.pc \notin {"none", "exited"}

\* a caller that runs nothing
Idle == [pc |-> "idle", waited |-> 0, target |-> "none"]

\* no stop() yet
NoStop == [t |-> "none", age |-> 0, bothSleeping |-> FALSE]

\* BackgroundTaskManager.__init__ and AppSettings' defaults: not running, no
\* threads, both toggles off
InitSched ==
    /\ running = FALSE
    /\ settings = [auto_update_prices |-> FALSE, auto_run_analysis |-> FALSE]
    /\ loops = [k \in LoopKinds |-> [cur |-> NoThread, old |-> NoThread]]
    /\ ctl = [c \in Callers |-> Idle]
    /\ lastStop = NoStop
    /\ posts = 0

\* settings.auto_update_prices / settings.auto_run_analysis
Enabled(k, st) == IF k = "price" THEN st.auto_update_prices ELSE st.auto_run_analysis

\* threading.Thread(target=..., daemon=True).start() for the enabled kinds: the
\* manager's reference moves to the new thread; a thread it referred to and
\* that is still alive goes on unreferenced
StartThreads(l, st) ==
    [k \in LoopKinds |->
        IF Enabled(k, st)
        THEN [cur |-> Thread("while", FALSE),
              old |-> IF Alive(l[k].cur) THEN l[k].cur ELSE l[k].old]
        ELSE l[k]]

\* at most one unreferenced live thread per kind is followed
CanStartThreads(l, st) ==
    \A k \in LoopKinds : (Enabled(k, st) /\ Alive(l[k].cur)) => ~Alive(l[k].old)

\* the thread a join() in progress waits for, after start() replaced references
Rejoin(caller, l, st) ==
    LET k == IF caller.pc = "join_price" THEN "price" ELSE "analysis" IN
    IF caller.pc \in {"join_price", "join_analysis"} /\ Enabled(k, st)
    THEN [caller EXCEPT !.target =
             IF caller.target = "cur" /\ Alive(l[k].cur) THEN "old" ELSE "dead"]
    ELSE caller

\* lines 32-46, start(): nothing if already running; else set the flag and
\* start the loops whose toggle is on
Start(c, next) ==
    IF running
    THEN /\ ctl' = [ctl EXCEPT ![c] = next]
         /\ UNCHANGED <<running, loops>>
    ELSE /\ CanStartThreads(loops, settings)
         /\ running' = TRUE
         /\ loops' = StartThreads(loops, settings)
         /\ ctl' = [c2 \in Callers |->
                      IF c2 = c THEN next ELSE Rejoin(ctl[c2], loops, settings)]

\* apps.py ready(): start() once, before any request
Ready(c) ==
    /\ ~running /\ lastStop = NoStop /\ \A c2 \in Callers : ctl[c2] = Idle
    /\ Start(c, Idle)
    /\ UNCHANGED <<settings, lastStop, posts>>

\* the thread a join() begins to wait for
JoinTarget(k) == IF loops[k].cur.pc = "none" THEN "dead" ELSE "cur"

\* the price loop and the analysis loop are both in the time.sleep(1) of their
\* interval wait
BothSleeping == \A k \in LoopKinds : loops[k].cur.pc = "sleep"

\* the settings view, POST (served by the first idle caller): save the
\* toggles, then restart(), whose stop() clears the flag and begins to join
\* the price thread
SettingsPost(c, prices, analysis) ==
    /\ ctl[c] = Idle /\ \A c2 \in Callers : c2 < c => ctl[c2] # Idle
    /\ posts < MaxPosts
    /\ posts' = posts + 1
    /\ settings' = [auto_update_prices |-> prices, auto_run_analysis |-> analysis]
    /\ running' = FALSE
    /\ lastStop' = [t |-> "stop", age |-> 0, bothSleeping |-> BothSleeping]
    /\ loops' = [k \in LoopKinds |->
                    [s \in {"cur", "old"} |->
                        [Thread(loops[k][s].pc, BothSleeping /\ loops[k][s].pc = "sleep")
                            EXCEPT !.backoffAtStop = (loops[k][s].pc = "backoff")]]]
    /\ ctl' = [ctl EXCEPT ![c] =
                  [pc |-> "join_price", waited |-> 0, target |-> JoinTarget("price")]]

\* the AppSettings row is changed without restart(): the admin site's change
\* form saves the toggles and nothing else
ConfigEdit(prices, analysis) ==
    /\ posts < MaxPosts
    /\ posts' = posts + 1
    /\ settings' = [auto_update_prices |-> prices, auto_run_analysis |-> analysis]
    /\ settings' # settings
    /\ UNCHANGED <<running, loops, ctl, lastStop>>

\* the thread a join() waits for has ended, or the timeout has passed
JoinOver(caller, k) ==
    IF caller.target = "dead" THEN TRUE
    ELSE ~Alive(loops[k][caller.target]) \/ caller.waited = JoinTimeout

\* stop(), lines 51-54: join(timeout=5) of the price thread returns
JoinPriceReturns(c) ==
    /\ ctl[c].pc = "join_price" /\ JoinOver(ctl[c], "price")
    /\ ctl' = [ctl EXCEPT ![c] =
                  [pc |-> "join_analysis", waited |-> 0, target |-> JoinTarget("analysis")]]
    /\ UNCHANGED <<running, settings, loops, lastStop, posts>>

\* join(timeout=5) of the analysis thread returns; restart() goes on to sleep(1)
JoinAnalysisReturns(c) ==
    /\ ctl[c].pc = "join_analysis" /\ JoinOver(ctl[c], "analysis")
    /\ ctl' = [ctl EXCEPT ![c] = [pc |-> "sleep", waited |-> 0, target |-> "none"]]
    /\ UNCHANGED <<running, settings, loops, lastStop, posts>>

\* restart(), line 238: start() after the sleep(1)
RestartStarts(c) ==
    /\ ctl[c].pc = "start"
    /\ Start(c, Idle)
    /\ UNCHANGED <<settings, lastStop, posts>>

\* a thread of the kind moves on
Move(k, s, pc) ==
    /\ loops' = [loops EXCEPT ![k][s].pc = pc]
    /\ UNCHANGED <<running, settings, ctl, lastStop, posts>>

\* `while self._running:` and the toggle read at the head of a pass
LoopHead(k, s) ==
    /\ loops[k][s].pc = "while"
    /\ Move(k, s, IF running /\ Enabled(k, settings) THEN "pass" ELSE "exited")

\* the pass over the assets ends and last_price_update / last_analysis_run is saved
PassDone(k, s) ==
    /\ loops[k][s].pc = "pass"
    /\ Move(k, s, "for")

\* an exception leaves the pass and the loop with it
PassErrorExits(k, s) ==
    /\ loops[k][s].pc = "pass"
    /\ Move(k, s, "exited")

\* an exception leaves the pass: the except branch sleeps 60 s (300 s)
PassError(k, s) ==
    /\ loops[k][s].pc = "pass"
    /\ Move(k, s, "backoff")

\* one round of `for _ in range(interval_seconds)`: the range is exhausted, or
\* the flag is off and the loop breaks, or time.sleep(1) begins
IntervalPoll(k, s, exhausted) ==
    /\ loops[k][s].pc = "for"
    /\ Move(k, s, IF exhausted \/ ~running THEN "while" ELSE "sleep")

\* a step that takes no time is due
Urgent ==
    \/ \E k \in LoopKinds, s \in {"cur", "old"} : loops[k][s].pc \in {"while", "for"}
    \/ \E c \in Callers :
          \/ ctl[c].pc = "join_price" /\ JoinOver(ctl[c], "price")
          \/ ctl[c].pc = "join_analysis" /\ JoinOver(ctl[c], "analysis")
          \/ ctl[c].pc = "start" /\ (running \/ CanStartThreads(loops, settings))

\* a second passes: every time.sleep(1) returns, a backoff sleep ends or goes
\* on (its 60 s or 300 s are not counted), every join() has waited one more
\* second
Second(ended) ==
    /\ ~Urgent
    /\ loops' = [k \in LoopKinds |->
                    [s \in {"cur", "old"} |->
                        IF loops[k][s].pc = "sleep"
                        THEN [loops[k][s] EXCEPT !.pc = "for"]
                        ELSE IF loops[k][s].pc = "backoff" /\ <<k, s>> \in ended
                        THEN [loops[k][s] EXCEPT !.pc = "while"]
                        ELSE loops[k][s]]]
    /\ ctl' = [c \in Callers |->
                  IF ctl[c].pc \in {"join_price", "join_analysis"}
                  THEN [ctl[c] EXCEPT !.waited = @ + 1]
                  ELSE IF ctl[c].pc = "sleep"
                  THEN [ctl[c] EXCEPT !.pc = "start"]
                  ELSE ctl[c]]
    /\ lastStop' = IF lastStop.bothSleeping /\ lastStop.age < MaxStopAge
                   THEN [lastStop EXCEPT !.age = @ + 1]
                   ELSE lastStop
    /\ UNCHANGED <<running, settings, posts>>

NextSched ==
    \/ \E c \in Callers : Ready(c) /\ UNCHANGED <<marketVars, analyzerVars, viewVars, cycleVars, iCall, pathVars, confVars>>
    \/ \E c \in Callers, prices \in BOOLEAN, analysis \in BOOLEAN :
          SettingsPost(c, prices, analysis) /\ UNCHANGED <<marketVars, analyzerVars, viewVars, cycleVars, iCall, pathVars, confVars>>
    \/ \E prices \in BOOLEAN, analysis \in BOOLEAN :
          ConfigEdit(prices, analysis) /\ UNCHANGED <<marketVars, analyzerVars, viewVars, cycleVars, iCall, pathVars, confVars>>
    \/ \E c \in Callers : JoinPriceReturns(c) /\ UNCHANGED <<marketVars, analyzerVars, viewVars, cycleVars, iCall, pathVars, confVars>>
    \/ \E c \in Callers : JoinAnalysisReturns(c) /\ UNCHANGED <<marketVars, analyzerVars, viewVars, cycleVars, iCall, pathVars, confVars>>
    \/ \E c \in Callers : RestartStarts(c) /\ UNCHANGED <<marketVars, analyzerVars, viewVars, cycleVars, iCall, pathVars, confVars>>
    \/ \E k \in LoopKinds, s \in {"cur", "old"} :
          LoopHead(k, s) /\ UNCHANGED <<marketVars, analyzerVars, viewVars, cycleVars, iCall, pathVars, confVars>>
    \/ \E k \in LoopKinds, s \in {"cur", "old"} :
          PassDone(k, s) /\ UNCHANGED <<marketVars, analyzerVars, viewVars, cycleVars, iCall, pathVars, confVars>>
    \/ \E k \in LoopKinds, s \in {"cur", "old"} :
          PassError(k, s) /\ UNCHANGED <<marketVars, analyzerVars, viewVars, cycleVars, iCall, pathVars, confVars>>
    \/ \E k \in LoopKinds, s \in {"cur", "old"}, exhausted \in BOOLEAN :
          IntervalPoll(k, s, exhausted) /\ UNCHANGED <<marketVars, analyzerVars, viewVars, cycleVars, iCall, pathVars, confVars>>
    \/ \E ended \in SUBSET (LoopKinds \X {"cur", "old"}) :
          Second(ended) /\ UNCHANGED <<marketVars, analyzerVars, viewVars, cycleVars, iCall, pathVars, confVars>>

(***************************************************************************)
(* A pass of a loop over the assets, and the TechnicalAnalysis rows it and  *)
(* crypto_analysis write (background_tasks.py, views.py)                   *)
(***************************************************************************)
\* the tracked assets (Crypto.objects.all())
Assets == {1, 2}

\* the rows one asset can have in a behaviour
MaxRows == 2

\* the assets whose analysis page is requested (the assets are alike)
RequestedAssets == {1}

\* the passes of a behaviour
MaxPasses == 2

\* the requests of a behaviour
MaxRequests == 1

\* the clock bound of this specification, in minutes
MaxCycleNow == 30

\* the record both loops' except branches and the view's store when the
\* reasoning call or the save raised: hold, 0, 'Ollama analysis unavailable: ...'
Unavailable == Analysis(Lower(HOLD), Num(0), [kind |-> "unavailable", msg |-> <<>>])

\* TechnicalAnalysis.objects.update_or_create(crypto=crypto, defaults=...):
\* get() on crypto, then update the row or create one; with several rows for
\* the asset get() raises MultipleObjectsReturned
UpdateOrCreate(rows, rec) ==
    IF Len(rows) > 1 THEN Raised ELSE [t |-> "saved", rows |-> <<rec>>]

\* what get_historical_data and the indicator computation give a pass: the
\* view's cases, and rows on which the computation raises
AssetHistoryResults == ViewHistoryResults \cup {"unusable"}

\* what storage does for one asset: works, fails on the first write only, fails
StorageResults == {"ok", "error_once", "error"}

\* lines 130-212: one asset of the analysis loop. The rows afterwards and what
\* happened: analysed, defaulted (except branch of the reasoning try), skipped
\* (continue), failed (the per-asset except)
AnalysisAsset(rows, t, price_data, history, close, env, storage) ==
    LET first  == IF storage = "ok"
                  THEN UpdateOrCreate(rows, Record(t, close, AnalyzeWithOllama(env)))
                  ELSE Raised
        second == IF storage = "error"
                  THEN Raised
                  ELSE UpdateOrCreate(rows, Record(t, close, Unavailable))
    IN  IF price_data = Raised THEN [rows |-> rows, outcome |-> "failed"]
        ELSE IF price_data = None THEN [rows |-> rows, outcome |-> "skipped"]
        ELSE IF history \in {"raised", "unusable"} THEN [rows |-> rows, outcome |-> "failed"]
        ELSE IF history # "rows" THEN [rows |-> rows, outcome |-> "skipped"]
        ELSE IF first # Raised THEN [rows |-> first.rows, outcome |-> "analysed"]
        ELSE IF second # Raised THEN [rows |-> second.rows, outcome |-> "defaulted"]
        ELSE [rows |-> rows, outcome |-> "failed"]

\* lines 68-92: one asset of the price loop: stored (a PriceHistory row),
\* skipped (no price), failed (the per-asset except)
PriceAsset(price_data, market_data, storage) ==
    IF price_data = Raised THEN "failed"
    ELSE IF price_data = None THEN "skipped"
    ELSE IF market_data = Raised \/ storage # "ok" THEN "failed"
    ELSE "stored"

\* no pass yet
NoPass == [kind |-> "none", n |-> 0, state |-> "idle", todo |-> 0, log |-> <<>>,
           saved |-> FALSE, error |-> "none"]

\* no request in flight
NoRead == [t |-> "none", n |-> 0]

\* no rows, no pass, no request
InitCycle ==
    /\ store = [a \in Assets |-> <<>>]
    /\ pass = NoPass
    /\ req = NoRead

\* the head of a pass: settings are read and the assets queried; an error here
\* (like one of the final settings.save) is outside the per-asset try and goes
\* to the loop's outer except, which sleeps 60 s (300 s)
BeginPass(kind, error) ==
    /\ pass.state # "assets"
    /\ pass.n < MaxPasses
    /\ pass' = [kind |-> kind, n |-> pass.n + 1, state |-> IF error = "none" THEN "assets" ELSE "backoff",
                todo |-> Cardinality(Assets), log |-> <<>>, saved |-> FALSE,
                error |-> error]
    /\ UNCHANGED <<store, req>>

\* a per-asset exception ends the pass in the backoff sleep
AfterAssetAbort(p, outcome) ==
    IF outcome = "failed"
    THEN [p EXCEPT !.state = "backoff", !.log = Append(@, outcome)]
    ELSE [p EXCEPT !.todo = @ - 1, !.log = Append(@, outcome)]

\* the for loop goes on to the next asset whatever happened to this one
AfterAsset(p, outcome) ==
    [p EXCEPT !.todo = @ - 1, !.log = Append(@, outcome)]

\* the asset the pass is at
CurrentAsset == Cardinality(Assets) - pass.todo + 1

\* the request in flight learns of a row the cycle wrote for its asset
Overtaken(r, a, rows) ==
    IF r.t = "read" /\ r.asset = a /\ rows # store[a]
    THEN [r EXCEPT !.between = rows[1]]
    ELSE r

\* the price loop handles its next asset
PriceAssetStep(price_data, market_data, storage) ==
    /\ pass.kind = "price" /\ pass.state = "assets" /\ pass.todo > 0
    /\ pass' = AfterAsset(pass, PriceAsset(price_data, market_data, storage))
    /\ UNCHANGED <<store, req>>

\* the reasoning call of this environment ends in the except branch of
\* analyze_with_ollama
ReasoningFails(env) == env.prompt.t = "exc" \/ env.generate.t = "exc"

\* the analysis loop handles its next asset
AnalysisAssetStep(price_data, history, close, env, storage) ==
    LET a   == CurrentAsset
        out == AnalysisAsset(store[a], now, price_data, history, close, env, storage)
    IN  /\ pass.kind = "analysis" /\ pass.state = "assets" /\ pass.todo > 0
        /\ pass' = AfterAsset(pass, out.outcome)
        /\ store' = [store EXCEPT ![a] = out.rows]
        /\ req' = Overtaken(req, a, out.rows)

\* after the last asset: last_price_update / last_analysis_run is saved and the
\* interval wait begins, or the save raises
EndPass(error) ==
    /\ pass.state = "assets" /\ pass.todo = 0
    /\ pass' = [pass EXCEPT !.state = IF error = "none" THEN "idle" ELSE "backoff",
                            !.saved = error = "none", !.error = error]
    /\ UNCHANGED <<store, req>>

\* the closing price a pass finds last in an asset's history
CycleCloses == {101}

\* what get_current_price gives the view or a pass when it does not raise
LivePrices == {None, PriceData(100)}

\* half an hour passes
TickCycle ==
    /\ now + 30 <= MaxCycleNow
    /\ now' = now + 30
    /\ UNCHANGED <<cache, mCall, mProviders, mResult, analyzerVars, viewVars, schedVars,
                   cycleVars, iCall, pathVars, confVars>>

\* the positions .first() can return under ordering ['-analysis_date']
Latest(rows) ==
    { i \in 1..Len(rows) : \A j \in 1..Len(rows) : rows[j].analysis_date <= rows[i].analysis_date }

\* views.py lines 284-314: crypto_analysis up to the reasoning call. The price
\* and history lookups returned, the latest row was read (row i, 0 for none)
\* and should_update was decided
ViewRead(a, i, force_update, price_data, history) ==
    LET latest_analysis == IF i = 0 THEN None ELSE store[a][i]
        current_price   == CurrentPriceOf(price_data)
    IN  /\ req.t # "read"
        /\ req.n < MaxRequests
        /\ IF store[a] = <<>> THEN i = 0 ELSE i \in Latest(store[a])
        /\ req' = [t |-> "read", n |-> req.n + 1, asset |-> a, row |-> i,
                   latest_analysis |-> latest_analysis,
                   current_price |-> current_price,
                   indicators_data |-> history = "rows",
                   should_update |-> ShouldUpdate(latest_analysis, force_update,
                                                  current_price, now),
                   between |-> None]
        /\ UNCHANGED <<store, pass>>

\* the instance the request holds when it writes: all fields new after the
\* reasoning call (the default analysis in the except branch), or the row it
\* read with the new indicators
Instance(r, t, result, storage) ==
    IF r.should_update
    THEN Record(t, r.current_price, IF storage = "ok" THEN result ELSE Unavailable)
    ELSE [r.latest_analysis EXCEPT !.current_price = r.current_price]

\* lines 377-417: the rows after the request's write. save() updates the row
\* read by its key, all fields or the indicators only; create() adds a row,
\* in the except branch too when no row was read
ViewRows(r, rows, t, result, storage) ==
    IF ~r.indicators_data THEN rows
    ELSE IF r.should_update
    THEN IF r.row # 0
         THEN IF storage = "ok"
              THEN [rows EXCEPT ![r.row] = Instance(r, t, result, storage)]
              ELSE rows
         ELSE IF storage # "error"
              THEN Append(rows, Instance(r, t, result, storage))
              ELSE rows
    ELSE IF r.row # 0 /\ storage = "ok"
    THEN [rows EXCEPT ![r.row].current_price = r.current_price]
    ELSE rows

\* the reasoning call returned and the request writes
ViewWrite(env, storage) ==
    LET a      == req.asset
        result == AnalyzeWithOllama(env)
        rows   == ViewRows(req, store[a], now, result, storage)
    IN  /\ req.t = "read"
        /\ Len(rows) <= MaxRows
        /\ store' = [store EXCEPT ![a] = rows]
        /\ req' = [t |-> "written", n |-> req.n, asset |-> a, row |-> req.row,
                   between |-> req.between,
                   instance |-> IF req.indicators_data /\ (req.should_update \/ req.row # 0)
                                THEN Instance(req, now, result, storage) ELSE None,
                   stored |-> IF rows = store[a] THEN None
                              ELSE rows[IF req.row # 0 THEN req.row ELSE Len(rows)]]
        /\ UNCHANGED pass

\* passes of both loops, requests and time
NextCycle ==
    \/ TickCycle
    \/ \E kind \in LoopKinds, error \in {"none", "settings_read", "asset_query"} :
          /\ BeginPass(kind, error)
          /\ UNCHANGED <<marketVars, analyzerVars, viewVars, schedVars, iCall, pathVars, confVars>>
    \/ \E price_data \in LivePrices \cup {Raised}, market_data \in {None, Raised, PriceData(100)},
          storage \in StorageResults :
          /\ PriceAssetStep(price_data, market_data, storage)
          /\ UNCHANGED <<marketVars, analyzerVars, viewVars, schedVars, iCall, pathVars, confVars>>
    \/ \E price_data \in LivePrices \cup {Raised}, history \in AssetHistoryResults,
          close \in CycleCloses, env \in ViewEnvs, storage \in StorageResults :
          /\ AnalysisAssetStep(price_data, history, close, env, storage)
          /\ UNCHANGED <<marketVars, analyzerVars, viewVars, schedVars, iCall, pathVars, confVars>>
    \/ \E error \in {"none", "settings_save"} :
          /\ EndPass(error)
          /\ UNCHANGED <<marketVars, analyzerVars, viewVars, schedVars, iCall, pathVars, confVars>>
    \/ \E a \in RequestedAssets, i \in 0..MaxRows, force_update \in BOOLEAN,
          price_data \in LivePrices, history \in {"none", "rows"} :
          /\ ViewRead(a, i, force_update, price_data, history)
          /\ UNCHANGED <<marketVars, analyzerVars, viewVars, schedVars, iCall, pathVars, confVars>>
    \/ \E env \in ViewEnvs, storage \in StorageResults :
          /\ ViewWrite(env, storage)
          /\ UNCHANGED <<marketVars, analyzerVars, viewVars, schedVars, iCall, pathVars, confVars>>

(***************************************************************************)
(* TechnicalIndicators (services/technical_indicators.py)                  *)
(* A float is a ratio of integers, +inf or nan.                            *)
(***************************************************************************)
\* the longest series of closes
MaxSeries == 21

\* the float n / d
Ratio(n, d) == [t |-> "ratio", n |-> n, d |-> d]

\* float('inf')
Inf == [t |-> "inf"]

RECURSIVE SumOf(_, _, _)
\* xs[from] + ... + xs[to]
SumOf(xs, from, to) == IF from > to THEN 0 ELSE xs[from] + SumOf(xs, from + 1, to)

\* a rolling mean that is computed over the samples there are
RollingMeanPartial(xs, window) ==
    IF Len(xs) < window THEN Ratio(SumOf(xs, 1, Len(xs)), Len(xs))
    ELSE Ratio(SumOf(xs, Len(xs) - window + 1, Len(xs)), window)

\* Series.rolling(window=window).mean().iloc[-1]: nan until the window is full
RollingMean(xs, window) ==
    IF Len(xs) < window THEN NaN
    ELSE Ratio(SumOf(xs, Len(xs) - window + 1, Len(xs)), window)

\* lines 30-32: calculate_sma, latest value
CalculateSma(closes, period) == RollingMean(closes, period)

RECURSIVE Ewm(_, _, _)
\* Series.ewm(span=span, adjust=False).mean() at position i, in thousandths
\* (rounded down): y1 = x1, yi = (1 - a) * y(i-1) + a * xi with a = 2 / (span + 1)
Ewm(xs, span, i) ==
    IF i = 1 THEN 1000 * xs[1]
    ELSE ((span - 1) * Ewm(xs, span, i - 1) + 2 * 1000 * xs[i]) \div (span + 1)

\* lines 34-36: calculate_ema, latest value
CalculateEma(closes, span) == Ratio(Ewm(closes, span, Len(closes)), 1000)

\* a division that gives nan whenever the divisor is zero
FloatDivideNoInf(a, b) ==
    IF a = NaN \/ b = NaN THEN NaN
    ELSE IF b.n = 0 THEN NaN
    ELSE Ratio(a.n * b.d, a.d * b.n)

\* the float division of two series elements (not negative): x / 0 is inf,
\* 0 / 0 and anything with nan is nan; nothing raises
FloatDivide(a, b) ==
    IF a = NaN \/ b = NaN THEN NaN
    ELSE IF b.n = 0 THEN (IF a.n = 0 THEN NaN ELSE Inf)
    ELSE Ratio(a.n * b.d, a.d * b.n)

\* lines 38-45: calculate_rsi, latest value. delta = close.diff(); the gains
\* are delta where delta > 0 else 0, the losses -delta where delta < 0 else 0
\* (the first delta is nan and counts as 0 in both); rs is the ratio of their
\* rolling means and rsi = 100 - 100 / (1 + rs)
CalculateRsi(closes, period) ==
    LET delta(i) == IF i = 1 THEN 0 ELSE closes[i] - closes[i - 1]
        gain == RollingMean([i \in 1..Len(closes) |-> IF delta(i) > 0 THEN delta(i) ELSE 0],
                            period)
        loss == RollingMean([i \in 1..Len(closes) |-> IF delta(i) < 0 THEN -delta(i) ELSE 0],
                            period)
        rs   == FloatDivide(gain, loss)
    IN  IF rs = NaN THEN NaN
        ELSE IF rs = Inf THEN Ratio(100, 1)
        ELSE Ratio(100 * rs.n, rs.n + rs.d)

\* lines 209-211: float(value.iloc[-1]) if not pd.isna(value.iloc[-1]) else None
LatestValue(value) == IF value = NaN THEN None ELSE value

\* lines 203-220: get_latest_values: the moving averages, the RSI and the
\* current price of the snapshot; iloc[-1] raises on an empty frame
GetLatestValues(closes) ==
    IF closes = <<>> THEN Raised
    ELSE [t |-> "values",
          sma_20 |-> LatestValue(CalculateSma(closes, 20)),
          sma_50 |-> LatestValue(CalculateSma(closes, 50)),
          ema_12 |-> LatestValue(CalculateEma(closes, 12)),
          ema_26 |-> LatestValue(CalculateEma(closes, 26)),
          rsi |-> LatestValue(CalculateRsi(closes, 14)),
          current_price |-> Ratio(closes[Len(closes)], 1)]

\* the series of closes tried: rising, falling, flat, and rising with one
\* drop (at position p), of every length up to MaxSeries
CloseSeries ==
    { [i \in 1..len |-> 10 + i] : len \in 0..MaxSeries }
      \cup { [i \in 1..len |-> 40 - i] : len \in 1..MaxSeries }
      \cup { [i \in 1..len |-> 20] : len \in 1..MaxSeries }
      \cup UNION { { [i \in 1..len |-> IF i < p THEN 10 + i ELSE 7 + i] : p \in 2..len }
                   : len \in 2..MaxSeries }

\* no call yet
InitIndicators == iCall = [t |-> "none"]

\* TechnicalIndicators(df).get_latest_values() on a frame with these closes
LatestValues(closes) ==
    /\ iCall' = [t |-> "call", closes |-> closes, values |-> GetLatestValues(closes)]
    /\ UNCHANGED <<marketVars, analyzerVars, viewVars, schedVars, cycleVars, pathVars, confVars>>

NextIndicators == \E closes \in CloseSeries : LatestValues(closes)

(***************************************************************************)
(* The call paths and their APIManager instances (background_tasks.py,     *)
(* views.py).  A call is followed through the statements of                *)
(* _get_from_cache and _set_cache, so that calls of different threads      *)
(* interleave.                                                             *)
(***************************************************************************)
\* the callers of the APIManager: the two loop threads and a crypto_analysis
\* request
Paths == {"price_loop", "analysis_loop", "request"}

\* the APIManager operations a path calls for an asset, by the kind of their
\* cache key
PathKinds(p) == IF p = "price_loop" THEN {"price", "market"} ELSE {"price", "historical"}

\* the symbol of the asset
PathSymbol == <<"B", "T", "C">>

\* AppSettings.historical_days (its default)
PathDays == 30

\* the cache key of an operation for the asset
PathKey(kind) ==
    CacheKey(kind, CleanSymbol(PathSymbol), IF kind = "historical" THEN PathDays ELSE 0)

\* one APIManager for all the paths
ApiManagerShared(p) == "price_loop"

\* api_manager = APIManager(): the instance the calls of a path go to; each
\* loop function and each request constructs its own
ApiManager(p) == p

\* a path that has made no call
NoPathCall == [pc |-> "idle", kind |-> "none", called |-> FALSE, got |-> FALSE]

\* APIManager.__init__ for each path: self.cache = {}
InitPaths ==
    /\ managers = [m \in Paths |-> << >>]
    /\ calls = [p \in Paths |-> NoPathCall]

\* a call is over: it returned from the cache, after the providers, or raised
CallOver(p) == calls[p].pc \in {"idle", "hit", "done", "failed"}

\* the order of a path's calls: get_current_price first (once per request);
\* then get_market_data or get_historical_data, which a loop makes only with
\* a price and a request whenever get_current_price returned
CanCall(p, kind) ==
    /\ CallOver(p)
    /\ kind \in PathKinds(p)
    /\ IF kind = "price"
       THEN p = "request" => calls[p].kind = "none"
       ELSE /\ calls[p].kind = "price"
            /\ calls[p].pc \in {"hit", "done"}
            /\ p # "request" => calls[p].got

\* crypto_analysis: api_manager = APIManager() of a new request
NewRequest ==
    /\ CallOver("request") /\ calls["request"].kind # "none"
    /\ managers' = [managers EXCEPT !["request"] = << >>]
    /\ calls' = [calls EXCEPT !["request"] = NoPathCall]

\* _get_from_cache: if key in self.cache
CallBegins(p, kind) ==
    /\ CanCall(p, kind)
    /\ calls' = [calls EXCEPT ![p] =
                    [pc |-> IF PathKey(kind) \in DOMAIN managers[ApiManager(p)]
                            THEN "found" ELSE "miss",
                     kind |-> kind, called |-> FALSE, got |-> FALSE]]
    /\ UNCHANGED managers

\* _get_from_cache: data, timestamp = self.cache[key] (a KeyError when the
\* key is gone) and the age test
CacheReads(p) ==
    LET m   == ApiManager(p)
        key == PathKey(calls[p].kind)
    IN  /\ calls[p].pc = "found"
        /\ calls' = [calls EXCEPT
                        ![p].pc = IF key \notin DOMAIN managers[m] THEN "failed"
                                  ELSE IF now - managers[m][key].timestamp < CacheDuration
                                  THEN "hit"
                                  ELSE "expired",
                        ![p].got = key \in DOMAIN managers[m]
                                     /\ now - managers[m][key].timestamp < CacheDuration]
        /\ UNCHANGED managers

\* _get_from_cache: del self.cache[key] (a KeyError when the key is gone)
CacheDeletes(p) ==
    LET m   == ApiManager(p)
        key == PathKey(calls[p].kind)
    IN  /\ calls[p].pc = "expired"
        /\ IF key \in DOMAIN managers[m]
           THEN /\ managers' = [managers EXCEPT
                                   ![m] = [k \in DOMAIN managers[m] \ {key} |-> managers[m][k]]]
                /\ calls' = [calls EXCEPT ![p].pc = "miss"]
           ELSE /\ calls' = [calls EXCEPT ![p].pc = "failed"]
                /\ UNCHANGED managers

\* after a miss the providers are called; they supply data or nothing
ProvidersCalled(p, supplied) ==
    /\ calls[p].pc = "miss"
    /\ calls' = [calls EXCEPT ![p].pc = IF supplied THEN "fetched" ELSE "done",
                              ![p].called = TRUE]
    /\ UNCHANGED managers

\* _set_cache: self.cache[key] = (data, timezone.now())
CacheSets(p) ==
    LET m == ApiManager(p) IN
    /\ calls[p].pc = "fetched"
    /\ managers' = [managers EXCEPT
                       ![m] = SetCache(managers[m], PathKey(calls[p].kind),
                                       [t |-> calls[p].kind, by |-> p], now)]
    /\ calls' = [calls EXCEPT ![p].pc = "done", ![p].got = TRUE]

(***************************************************************************)
(* The loops and the AppSettings row they read and write                   *)
(* (background_tasks.py, models.py, ollama_analyzer.py).  A timestamp is    *)
(* the number of the pass that wrote it; 0 is null.                        *)
(***************************************************************************)
\* the passes of one loop thread that are followed
MaxCycles == 2

\* OllamaAnalyzer(): base_url and model from the Django settings' defaults
DefaultAnalyzer == [base_url |-> "http://localhost:11434", model |-> "plutus"]

\* the AppSettings row get_or_create(pk=1) creates: the fields' defaults
DefaultRow ==
    [auto_update_prices |-> FALSE, price_update_interval |-> 60,
     auto_run_analysis |-> FALSE, analysis_interval |-> 360,
     ollama_base_url |-> "http://localhost:11434", ollama_model |-> "plutus",
     historical_days |-> 30, last_price_update |-> 0, last_analysis_run |-> 0]

\* the fields a settings form stores
ConfigFields == DOMAIN DefaultRow \ {"last_price_update", "last_analysis_run"}

\* what a settings form stores: the toggles, the intervals, the reasoning
\* endpoint and model, the historical days
Form(toggles, price_interval, analysis_interval, base_url, model, days) ==
    [auto_update_prices |-> toggles, price_update_interval |-> price_interval,
     auto_run_analysis |-> toggles, analysis_interval |-> analysis_interval,
     ollama_base_url |-> base_url, ollama_model |-> model, historical_days |-> days]

\* the forms submitted: the loops enabled with the defaults, other intervals,
\* endpoint, model and days, the endpoint field cleared, the loops disabled
Forms ==
    { Form(TRUE, 60, 360, "http://localhost:11434", "plutus", 30),
      Form(TRUE, 5, 30, "http://remote:11434", "llama3", 7),
      Form(TRUE, 60, 360, "", "plutus", 30),
      Form(FALSE, 60, 360, "http://localhost:11434", "plutus", 30) }

\* Model.save() of every field of the object
SaveAllFields(stored, obj, update_fields) == obj

\* Model.save(update_fields=...): only the named columns of the row are written
Save(stored, obj, update_fields) ==
    [f \in DOMAIN stored |-> IF f \in update_fields THEN obj[f] ELSE stored[f]]

\* update_config that leaves the analyzer as it is
UpdateConfigIgnored(analyzer, base_url, model) == analyzer

\* OllamaAnalyzer.update_config: `if base_url:` / `if model:`
UpdateConfig(analyzer, base_url, model) ==
    [base_url |-> IF base_url # "" THEN base_url ELSE analyzer.base_url,
     model |-> IF model # "" THEN model ELSE analyzer.model]

\* what a pass has used of the configuration so far (nothing), and whether
\* the row had been edited since the head of the cycle when the pass saved
\* its timestamp
NoUse == [days |-> 0, base_url |-> "-", model |-> "-", interval |-> 0, edited |-> FALSE]

\* no thread of a loop
NoLoop == [pc |-> "none", n |-> 0, settings |-> DefaultRow, analyzer |-> DefaultAnalyzer,
           used |-> NoUse]

\* the row with its defaults, no loop threads
InitConfig ==
    /\ row = DefaultRow
    /\ cyc = [k \in LoopKinds |-> NoLoop]

\* the field of the timestamp a loop writes, and of its interval
StampField(k) == IF k = "price" THEN "last_price_update" ELSE "last_analysis_run"

IntervalField(k) == IF k = "price" THEN "price_update_interval" ELSE "analysis_interval"

\* a settings form is saved (the row keeps the timestamps it has)
FormSaved(form) ==
    /\ row' = [f \in DOMAIN row |-> IF f \in DOMAIN form THEN form[f] ELSE row[f]]
    /\ row' # row
    /\ UNCHANGED <<cyc, running>>

\* start(): the flag is set and the enabled loops get a thread, each with its
\* own OllamaAnalyzer()
SchedulerStarts ==
    /\ ~running
    /\ \A k \in LoopKinds : cyc[k].pc \in {"none", "exited"}
    /\ running' = TRUE
    /\ cyc' = [k \in LoopKinds |->
                 IF Enabled(k, row) THEN [NoLoop EXCEPT !.pc = "while", !.n = cyc[k].n]
                 ELSE cyc[k]]
    /\ UNCHANGED row

\* stop(): the flag is cleared
SchedulerStops ==
    /\ running
    /\ running' = FALSE
    /\ UNCHANGED <<row, cyc>>

\* the head of a cycle: `while self._running`, settings =
\* AppSettings.get_settings(), the break on a disabled toggle, and in the
\* analysis loop ollama_analyzer.update_config(...)
CycleHead(k) ==
    /\ cyc[k].pc = "while"
    /\ cyc' = [cyc EXCEPT ![k] =
                  IF ~running THEN [@ EXCEPT !.pc = "exited"]
                  ELSE IF ~Enabled(k, row) THEN [@ EXCEPT !.pc = "exited", !.settings = row]
                  ELSE [pc |-> "pass", n |-> @.n + 1, settings |-> row,
                        analyzer |-> IF k = "analysis"
                                     THEN UpdateConfig(@.analyzer, row.ollama_base_url,
                                                       row.ollama_model)
                                     ELSE @.analyzer,
                        used |-> NoUse]]
    /\ (running /\ Enabled(k, row)) => cyc[k].n < MaxCycles
    /\ UNCHANGED <<row, running>>

\* the assets of the pass are handled: the analysis loop asks for
\* settings.historical_days of history and calls the reasoning service
\* through its analyzer
AssetsHandled(k) ==
    /\ cyc[k].pc = "pass"
    /\ cyc' = [cyc EXCEPT ![k].pc = "save",
                          ![k].used = IF k = "analysis"
                                      THEN [days |-> cyc[k].settings.historical_days,
                                            base_url |-> cyc[k].analyzer.base_url,
                                            model |-> cyc[k].analyzer.model,
                                            interval |-> 0, edited |-> FALSE]
                                      ELSE NoUse]
    /\ UNCHANGED <<row, running>>

\* settings.last_price_update = timezone.now();
\* settings.save(update_fields=['last_price_update']) (last_analysis_run in
\* the analysis loop), then the interval of the wait is taken from settings
TimestampSaved(k) ==
    LET obj == [cyc[k].settings EXCEPT ![StampField(k)] = cyc[k].n] IN
    /\ cyc[k].pc = "save"
    /\ row' = Save(row, obj, {StampField(k)})
    /\ cyc' = [cyc EXCEPT ![k].pc = "wait", ![k].settings = obj,
                          ![k].used.interval = obj[IntervalField(k)],
                          ![k].used.edited = \E f \in ConfigFields : row[f] # cyc[k].settings[f]]
    /\ UNCHANGED running

\* the interval wait is over (or the flag is off)
WaitOver(k) ==
    /\ cyc[k].pc = "wait"
    /\ cyc' = [cyc EXCEPT ![k].pc = "while"]
    /\ UNCHANGED <<row, running>>

\* an exception leaves the pass; after the sleep of the except branch the
\* loop is at its head again
CycleError(k) ==
    /\ cyc[k].pc \in {"pass", "save"}
    /\ cyc' = [cyc EXCEPT ![k].pc = "while"]
    /\ UNCHANGED <<row, running>>

NextConfig ==
    LET others == UNCHANGED <<marketVars, analyzerVars, viewVars, settings, loops, ctl,
                              lastStop, posts, cycleVars, iCall, pathVars>>
    IN  \/ \E form \in Forms : FormSaved(form) /\ others
        \/ SchedulerStarts /\ others
        \/ SchedulerStops /\ others
        \/ \E k \in LoopKinds : CycleHead(k) /\ others
        \/ \E k \in LoopKinds : AssetsHandled(k) /\ others
        \/ \E k \in LoopKinds : TimestampSaved(k) /\ others
        \/ \E k \in LoopKinds : WaitOver(k) /\ others
        \/ \E k \in LoopKinds : CycleError(k) /\ others

\* the state after construction
Init == InitMarket /\ InitAnalyzer /\ InitView /\ InitSched /\ InitCycle
          /\ InitIndicators /\ InitPaths /\ InitConfig

NextPrice ==
    \/ Tick
    \/ \E symbol \in RawSymbols, ticker \in TickerOutcomes, gecko \in GeckoPriceOutcomes :
          GetCurrentPrice(symbol, ticker, gecko)

\* the APIManager under get_current_price calls
SpecPrice == Init /\ [][NextPrice]_vars

\* the cache duration passes
TickTTL ==
    /\ now + CacheDuration <= MaxNow
    /\ now' = now + CacheDuration
    /\ UNCHANGED <<cache, mCall, mProviders, mResult>>
    /\ UNCHANGED <<analyzerVars, viewVars, schedVars, cycleVars, iCall, pathVars, confVars>>

NextMarket ==
    \/ TickTTL
    \/ \E symbol \in MarketSymbols, ticker \in TickerOutcomes, gecko \in GeckoPriceOutcomes :
          GetCurrentPrice(symbol, ticker, gecko)
    \/ \E symbol \in MarketSymbols, days \in HistoryDays,
          klines \in KlinesOutcomes, hist \in GeckoHistoryOutcomes :
          GetHistoricalData(symbol, days, klines, hist)
    \/ \E symbol \in MarketSymbols, ticker \in TickerOutcomes, market \in GeckoMarketOutcomes :
          GetMarketData(symbol, ticker, market)

\* the APIManager under all its calls
SpecMarket == Init /\ [][NextMarket]_vars

\* the windows (AppSettings.historical_days, any integer of the settings form)
\* of the history requests
HistoryWindows == {1, 3, 7, 30, 31}

NextHistory ==
    \E days \in HistoryWindows, klines \in KlinesOutcomes, hist \in GeckoHistoryOutcomes :
          GetHistoricalData(PathSymbol, days, klines, hist)

\* the APIManager under get_historical_data calls over the windows, within one
\* cache duration
SpecHistory == Init /\ [][NextHistory]_vars

NextAnalyzer == \E env \in AnalyzerEnvs : Analyze(env)

\* analyze_with_ollama over every environment
SpecAnalyzer == Init /\ [][NextAnalyzer]_vars

\* the scheduler, its loops and two callers of restart()
SpecSched == Init /\ [][NextSched]_vars

\* what the threads' scheduling guarantees: a step that is due is taken (a
\* thread at its loop head or in a join that is over goes on, a start() that
\* is due runs), time goes on (the steps that take no time do not follow
\* each other forever), a pass ends (the provider calls time out after
\* 10 s; the reasoning call is taken to return), the range of the interval
\* wait is finite, and a backoff sleep ends
Fairness ==
    LET others == UNCHANGED <<marketVars, analyzerVars, viewVars, cycleVars, iCall, pathVars, confVars>> IN
    /\ []<><<\E ended \in SUBSET (LoopKinds \X {"cur", "old"}) : Second(ended)>>_vars
    /\ \A c \in Callers :
          WF_vars(others /\ (JoinPriceReturns(c) \/ JoinAnalysisReturns(c)
                                \/ RestartStarts(c)))
    /\ \A k \in LoopKinds, s \in {"cur", "old"} :
          /\ WF_vars(others /\ LoopHead(k, s))
          /\ WF_vars(others /\ (PassDone(k, s) \/ PassError(k, s)))
          /\ WF_vars(others /\ \E exhausted \in BOOLEAN : IntervalPoll(k, s, exhausted))
          /\ SF_vars(others /\ IntervalPoll(k, s, TRUE))
          /\ SF_vars(others /\ \E ended \in SUBSET (LoopKinds \X {"cur", "old"}) :
                        <<k, s>> \in ended /\ loops[k][s].pc = "backoff" /\ Second(ended))

\* the settings changes of a behaviour of the fairly scheduled scheduler
MaxLivePosts == 2

\* the scheduler steps with one settings request at a time
NextLive == NextSched /\ ctl'[2] = Idle /\ posts' <= MaxLivePosts

\* the scheduler with its threads scheduled fairly
SpecLive == Init /\ [][NextLive]_vars /\ Fairness

\* passes of the loops racing with crypto_analysis requests on the stored rows
SpecCycle == Init /\ [][NextCycle]_vars

\* get_latest_values on series of closes
SpecIndicators == Init /\ [][NextIndicators]_vars

\* the on-demand view over time
SpecView == Init /\ [][NextView]_vars

\* the steps of the call paths, and the cache duration passing
NextPaths ==
    LET others == UNCHANGED <<cache, mCall, mProviders, mResult, analyzerVars, viewVars,
                              schedVars, cycleVars, iCall, confVars>>
    IN  \/ TickTTL
        \/ NewRequest /\ UNCHANGED now /\ others
        \/ \E p \in Paths, kind \in {"price", "market", "historical"} :
              CallBegins(p, kind) /\ UNCHANGED now /\ others
        \/ \E p \in Paths : CacheReads(p) /\ UNCHANGED now /\ others
        \/ \E p \in Paths : CacheDeletes(p) /\ UNCHANGED now /\ others
        \/ \E p \in Paths, supplied \in BOOLEAN :
              ProvidersCalled(p, supplied) /\ UNCHANGED now /\ others
        \/ \E p \in Paths : CacheSets(p) /\ UNCHANGED now /\ others

\* the call paths, each on its APIManager
SpecPaths == Init /\ [][NextPaths]_vars

\* the loops' cycles against edits of the AppSettings row
SpecConfig == Init /\ [][NextConfig]_vars

(***************************************************************************)
(* Claims about the APIManager                                             *)
(***************************************************************************)
\* the cache holds an entry for the key stored less than 5 minutes ago
FreshEntry(c, key, t) == key \in DOMAIN c /\ t - c[key].timestamp < CacheDuration

\* C1: a get_current_price call that finds an entry for the normalized symbol
\* stored less than 5 minutes ago calls no provider (neither the exchange nor
\* the aggregator) and returns the cached value unchanged; so a second call
\* within 5 minutes of the one that stored the entry adds no provider call.
C1_FreshEntryServedWithoutProvider ==
    [][ (now' = now /\ mCall'.op = "get_current_price"
           /\ FreshEntry(cache, mCall'.key, now))
        => (mProviders' = <<>> /\ mResult' = cache[mCall'.key].data
              /\ cache' = cache) ]_vars

\* C1 witness: a call answered from an entry that the exchange supplied some
\* minutes earlier
C1_Witness ==
    /\ mCall.op = "get_current_price" /\ mCall.hit /\ mProviders = <<>>
    /\ mCall.key \in DOMAIN cache
    /\ mResult = cache[mCall.key].data /\ mResult.source = "binance"
    /\ now - cache[mCall.key].timestamp \in 1..(CacheDuration - 1)

\* C2: a get_current_price call with no fresh entry consults the exchange
\* first; if the exchange errors, returns no data or a price <= 0 the
\* aggregator is consulted next; None is returned only after the aggregator
\* was consulted and gave no price > 0; the aggregator is never consulted
\* when the exchange returned a price > 0.
C2_FallbackOrder ==
    (mCall.op = "get_current_price" /\ ~mCall.hit) =>
        /\ Len(mProviders) >= 1 /\ mProviders[1].provider = "binance"
        /\ (mProviders[1].got # "positive" =>
               Len(mProviders) = 2 /\ mProviders[2].provider = "coingecko")
        /\ (mResult = None =>
               Len(mProviders) = 2 /\ mProviders[2].got # "positive")
        /\ (mProviders[1].got = "positive" => Len(mProviders) = 1)

\* C3: whatever the providers answer (network error, non-2xx status, malformed
\* or unexpectedly shaped body, empty payload), get_current_price,
\* get_historical_data and get_market_data return a result or None and never
\* raise to the caller.
C3_NeverRaises == mResult # Raised

\* C17: the result of an APIManager operation has the same fields whichever
\* provider supplied it: get_current_price the price, the source and the four
\* 24h fields; get_market_data the price, high, low, volume, absolute and
\* percent change and the source; get_historical_data data of one shape (the
\* list of candles).
C17_SameFieldsWhicheverProvider ==
    (mResult \notin {None, Raised}) =>
        /\ (mCall.op = "get_current_price") =>
              (DOMAIN mResult = {"t", "price", "source", "high_24h", "low_24h",
                                 "volume_24h", "change_24h"})
        /\ (mCall.op = "get_market_data") =>
              (DOMAIN mResult = {"t", "current_price", "high_24h", "low_24h", "volume_24h",
                                 "price_change_24h", "price_change_percentage_24h",
                                 "source"})
        /\ (mCall.op = "get_historical_data") =>
              (DOMAIN mResult.data = {"t", "closes"})

\* C23: a cache entry whose age is 5 minutes or more is never returned: the
\* read that finds it removes it and goes on to the providers (the key is
\* then absent or holds what the providers just supplied); no other
\* operation removes or replaces an entry, and an entry younger than
\* 5 minutes is never removed.
C23_ExpiredOnlyOnRead ==
    [][ /\ \A key \in DOMAIN cache :
              (key \notin DOMAIN cache' \/ cache'[key] # cache[key]) =>
                  /\ now' = now /\ mCall'.key = key
                  /\ now - cache[key].timestamp >= CacheDuration
        /\ (now' = now /\ mCall'.key \in DOMAIN cache
              /\ now - cache[mCall'.key].timestamp >= CacheDuration) =>
                  /\ ~mCall'.hit /\ mProviders' # <<>>
                  /\ mCall'.key \in DOMAIN cache' =>
                        /\ cache'[mCall'.key].timestamp = now
                        /\ mResult' = cache'[mCall'.key].data ]_vars

\* C23 witness: a call found the entry of its key aged out and deleted it, the
\* providers supplied nothing, and the entry of another symbol, stored
\* between 1 and 4 minutes ago, is still there
C23_Witness ==
    /\ mCall.op = "get_current_price" /\ mCall.evicted /\ ~mCall.hit
    /\ Len(mProviders) = 2 /\ mResult = None
    /\ mCall.key \notin DOMAIN cache
    /\ \E key \in DOMAIN cache : now - cache[key].timestamp \in 1..(CacheDuration - 1)

\* C24: a get_historical_data call that misses the cache, for a window of
\* days <= 30, asks the exchange first, with interval hourly when days <= 1,
\* 4-hourly when 1 < days <= 7 and daily otherwise, and a limit never above
\* 100; when the exchange returns nothing the aggregator series is used; for
\* days > 30 the exchange is not called and the aggregator is.
C24_IntervalByWindow ==
    (mCall.op = "get_historical_data" /\ ~mCall.hit) =>
        LET days == mCall.key.days IN
        /\ days <= 30 =>
              /\ mProviders # <<>> /\ mProviders[1].provider = "binance"
              /\ mProviders[1].interval =
                    (IF days <= 1 THEN "1h" ELSE IF days <= 7 THEN "4h" ELSE "1d")
              /\ mProviders[1].limit <= 100
              /\ mProviders[1].got = "none" =>
                    /\ Len(mProviders) = 2 /\ mProviders[2].provider = "coingecko"
                    /\ mResult \notin {None, Raised} => mResult.source = "coingecko"
        /\ days > 30 =>
              /\ Len(mProviders) = 1 /\ mProviders[1].provider = "coingecko"
              /\ mResult \notin {None, Raised} => mResult.source = "coingecko"

(***************************************************************************)
(* Claims about OllamaAnalyzer.analyze_with_ollama                         *)
(***************************************************************************)
\* a call was made
Analyzed == aInput.t = "env"

\* the call got a reply from the reasoning service
GotReply == Analyzed /\ aInput.prompt = Ok /\ aInput.generate.t = "reply"

\* the reply carried a JSON object that json.loads accepted
GotJson == GotReply /\ aInput.generate.decoded.t = "dict"

\* the reply was left to the keyword parser: free text, or JSON that does not load
GotFreeText == GotReply /\ aInput.generate.decoded.t # "dict"

\* the JSON object's confidence_score is nothing float() converts
BadConfidence ==
    LET conf == aInput.generate.decoded.confidence_score IN
    conf = Null \/ (conf.t = "str" /\ ~AllDigits(conf.chars))

\* interpreting the reply fails: the JSON object's recommendation is not a
\* string, or its confidence_score is not convertible
InterpretFailed ==
    GotJson /\ (aInput.generate.decoded.recommendation = Null \/ BadConfidence)

\* the call failed while building the prompt, calling the service or
\* interpreting the reply
AnalysisFailed ==
    Analyzed /\ (aInput.prompt.t = "exc" \/ aInput.generate.t = "exc" \/ InterpretFailed)

\* the two reasoning texts that label a failure
FailureKinds == {"service_unavailable", "other_error"}

\* C4: analyze_with_ollama never raises; every failure while building the
\* prompt, calling the reasoning service or interpreting its reply gives the
\* neutral default: recommendation 'hold', confidence 0 and one of the two
\* failure messages as reasoning, and only failures are labelled so.
C4_NeverRaisesNeutralDefault ==
    Analyzed =>
        /\ aResult.t = "analysis"
        /\ (AnalysisFailed =>
              /\ aResult.recommendation = Lower(HOLD)
              /\ aResult.confidence_score = Num(0)
              /\ aResult.reasoning.kind \in FailureKinds)
        /\ (~AnalysisFailed => aResult.reasoning.kind \notin FailureKinds)

\* C4 witness: a reply whose confidence cannot be converted ends as the
\* neutral default with the other-error message
C4_Witness ==
    /\ InterpretFailed
    /\ aInput.generate.decoded.confidence_score = Str(<<"h", "i", "g", "h">>)
    /\ aResult.t = "analysis"
    /\ aResult.recommendation = Lower(HOLD)
    /\ aResult.confidence_score = Num(0)
    /\ aResult.reasoning.kind = "other_error"

\* C5: the confidence analyze_with_ollama returns is a number within [0,100]
\* for every reply, whether the reply's confidence is below 0, above 100,
\* non-numeric or missing.
C5_ConfidenceInRange ==
    Analyzed =>
        /\ aResult.t = "analysis"
        /\ aResult.confidence_score.t = "num"
        /\ aResult.confidence_score.v \in 0..100

\* C5 witness: a JSON reply with confidence 150 comes back as 100
C5_Witness ==
    /\ GotJson
    /\ aInput.generate.decoded.confidence_score = Num(150)
    /\ aInput.generate.decoded.recommendation = Str(BUY)
    /\ aResult.t = "analysis"
    /\ aResult.confidence_score = Num(100)

\* C6: the recommendation analyze_with_ollama returns is exactly one of 'buy',
\* 'sell', 'hold' for every reply (JSON or free text), and a JSON value that
\* is none of the three words is returned as 'hold'.
C6_RecommendationNormalized ==
    Analyzed =>
        /\ aResult.t = "analysis"
        /\ aResult.recommendation \in {Lower(BUY), Lower(SELL), Lower(HOLD)}
        /\ ((GotJson /\ aInput.generate.decoded.recommendation.t = "str"
               /\ Upper(aInput.generate.decoded.recommendation.chars)
                     \notin {BUY, SELL, HOLD})
              => aResult.recommendation = Lower(HOLD))

\* C6 witness: the JSON value WAIT with a valid confidence is returned as hold
C6_Witness ==
    /\ GotJson
    /\ aInput.generate.decoded.recommendation = Str(<<"W", "A", "I", "T">>)
    /\ aInput.generate.decoded.confidence_score = Num(85)
    /\ aResult.t = "analysis"
    /\ aResult.recommendation = Lower(HOLD)
    /\ aResult.reasoning.kind \notin FailureKinds

\* the reply's JSON object has a string recommendation that is none of BUY,
\* SELL, HOLD (in any case)
InexactJsonValue ==
    /\ GotJson
    /\ aInput.generate.decoded.recommendation.t = "str"
    /\ Upper(aInput.generate.decoded.recommendation.chars) \notin {BUY, SELL, HOLD}

\* C7 as stated: a recommendation value that is not exactly BUY/SELL/HOLD but
\* contains the substring BUY (STRONG_BUY) is normalized to 'buy'; a value in
\* which no such substring matches becomes 'hold'.
C7_SubstringValueIsBuy ==
    (InexactJsonValue /\ ~AnalysisFailed) =>
        aResult.recommendation =
            (IF Contains(BUY, Upper(aInput.generate.decoded.recommendation.chars))
             THEN Lower(BUY) ELSE Lower(HOLD))

\* C7 amended: substring matching applies only to a reply left to the keyword
\* parser (free text, or JSON that does not load), whose whole text is
\* searched: BUY anywhere gives 'buy', otherwise SELL anywhere gives 'sell',
\* otherwise 'hold'. A loaded JSON value that is none of BUY, SELL, HOLD
\* (STRONG_BUY included) becomes 'hold'.
C7_SubstringOnlyInFreeText ==
    /\ InexactJsonValue => aResult.recommendation = Lower(HOLD)
    /\ GotFreeText =>
         aResult.recommendation =
            (IF Contains(BUY, Upper(aInput.generate.text)) THEN Lower(BUY)
             ELSE IF Contains(SELL, Upper(aInput.generate.text)) THEN Lower(SELL)
             ELSE Lower(HOLD))

\* C7 witness: the loaded JSON value STRONG_BUY, with a valid confidence, is
\* returned as hold
C7_Witness ==
    /\ InexactJsonValue
    /\ aInput.generate.decoded.recommendation = Str(<<"S", "T", "R", "O", "N", "G", "_", "B", "U", "Y">>)
    /\ aInput.generate.decoded.confidence_score = Num(85)
    /\ aResult.recommendation = Lower(HOLD)
    /\ aResult.reasoning.kind \notin FailureKinds

\* the failure was a refused or timed-out connection to the reasoning service
ConnectivityFailure ==
    Analyzed /\ aInput.prompt = Ok /\ aInput.generate.t = "exc"
      /\ aInput.generate.class = "connectivity"

\* C8: a connectivity failure (connection refused, timeout) is reported with
\* the service-unavailable message and every other failure with the
\* other-error message, never the other way round.
C8_FailureClassification ==
    AnalysisFailed =>
        aResult.reasoning.kind =
            (IF ConnectivityFailure THEN "service_unavailable" ELSE "other_error")

\* the result expected of keyword scanning: the recommendation by the first of
\* BUY, SELL found anywhere in the upper-cased text, and the number that
\* follows the word confidence and its separators, kept within 0..100, or 50
KeywordScan(text) ==
    LET n == ConfidenceFromText(text) IN
    [recommendation |->
        IF Contains(BUY, Upper(text)) THEN <<"b", "u", "y">>
        ELSE IF Contains(SELL, Upper(text)) THEN <<"s", "e", "l", "l">>
        ELSE <<"h", "o", "l", "d">>,
     confidence_score |->
        IF n = Missing THEN 50 ELSE IF n.v > 100 THEN 100 ELSE n.v]

\* the result of the call is the result of keyword scanning of the reply
ResultIsKeywordScan ==
    /\ aResult.recommendation = KeywordScan(aInput.generate.text).recommendation
    /\ aResult.confidence_score = Num(KeywordScan(aInput.generate.text).confidence_score)
    /\ aResult.reasoning.kind = "response_text"

\* the reply has no JSON object with a "recommendation" key that was
\* extracted and loaded
NoObjectWithRecommendationKey ==
    GotReply /\ ~(GotJson /\ aInput.generate.decoded.recommendation # Missing)

\* C30 as stated: when no JSON object containing a recommendation key can be
\* extracted and parsed from the reply, the result comes from keyword
\* scanning of the raw text: 'buy' if it contains BUY, else 'sell' if it
\* contains SELL, else 'hold', with the confidence of a "confidence: NN"
\* pattern clamped to [0,100], or 50 without such a pattern.
C30_KeywordScanWithoutRecommendationKey ==
    NoObjectWithRecommendationKey => ResultIsKeywordScan

\* C30 amended: the keyword scan decides exactly when the pattern finds no
\* flat {...} holding the quoted word recommendation or json.loads rejects
\* what it found. An object that loads is used even if the quoted word is
\* not one of its keys: the recommendation is then 'hold' and the confidence
\* is the object's confidence_score (50 without one), whatever the text
\* contains.
C30_KeywordScanWhenNothingLoads ==
    /\ GotFreeText => ResultIsKeywordScan
    /\ (GotJson /\ aInput.generate.decoded.recommendation = Missing /\ ~AnalysisFailed) =>
          /\ aResult.recommendation = Lower(HOLD)
          /\ aInput.generate.decoded.confidence_score = Missing =>
                aResult.confidence_score = Num(50)
          /\ aInput.generate.decoded.confidence_score = Num(85) =>
                aResult.confidence_score = Num(85)

\* C30 witness: a free text holding both keywords and no confidence pattern
\* was scanned to buy with confidence 50
C30_Witness ==
    /\ GotFreeText
    /\ Contains(BUY, Upper(aInput.generate.text))
    /\ Contains(SELL, Upper(aInput.generate.text))
    /\ ConfidenceFromText(aInput.generate.text) = Missing
    /\ aResult.recommendation = <<"b", "u", "y">>
    /\ aResult.confidence_score = Num(50)

(***************************************************************************)
(* Claims about the on-demand view                                         *)
(***************************************************************************)
\* a request was served and its market-data lookups returned
Served == vCall.t = "request" /\ ~vCall.raised

\* the request found a row whose recommendation is stale by the four tests of
\* the claim, the price test taken as |current - recorded| > 2% of recorded
StaleAsClaimed ==
    \/ vCall.before = None
    \/ vCall.refresh
    \/ vCall.at - vCall.before.analysis_date > 60
    \/ Abs(vCall.current_price - vCall.before.current_price) * 100
          > 2 * vCall.before.current_price

\* C9 as stated: crypto_analysis makes the reasoning call (recomputes) exactly
\* when no row exists, or refresh is set, or the row is older than 1 hour, or
\* the price moved more than 2% from the recorded one; otherwise it serves
\* the cached row without a reasoning call.
C9_RecomputeExactlyWhenStale ==
    Served => (vCall.called <=> StaleAsClaimed)

\* the four tests with the price test applied only to a recorded price > 0
StaleInCode ==
    \/ vCall.before = None
    \/ vCall.refresh
    \/ vCall.at - vCall.before.analysis_date > 60
    \/ /\ vCall.before.current_price > 0
       /\ Abs(vCall.current_price - vCall.before.current_price) * 100
             > 2 * vCall.before.current_price

\* C9 amended: the reasoning call is made exactly when both lookups returned,
\* the history gave an indicator snapshot (it has rows), and no row exists or
\* refresh is set or the row is older than 1 hour or its recorded price is
\* > 0 and the current price differs from it by more than 2%. A recompute
\* stamps the row with the request's time; without one the recommendation,
\* confidence, reasoning and analysis date of an existing row stay as they
\* were and no row is created.
C9_RecomputeWhenSnapshotAndStale ==
    vCall.t = "request" =>
        /\ vCall.called <=> (Served /\ vCall.history = "rows" /\ StaleInCode)
        /\ vCall.called =>
              record # None /\ record.analysis_date = vCall.at
                /\ record.current_price = vCall.current_price
        /\ (~vCall.called /\ vCall.before = None) => record = None
        /\ (~vCall.called /\ vCall.before # None) =>
              record \in { vCall.before,
                           [vCall.before EXCEPT !.current_price = vCall.current_price] }

\* C9 witness: a row half an hour old recorded at 100, the price now 103, no
\* refresh flag: the request recomputed
C9_Witness ==
    /\ Served /\ ~vCall.refresh /\ vCall.before # None
    /\ vCall.at - vCall.before.analysis_date = 30
    /\ vCall.before.current_price = 100 /\ vCall.current_price = 103
    /\ vCall.called
    /\ record.analysis_date = vCall.at

\* C25: when a request serves the stored record (no reasoning call), the only
\* field of the stored record that changes is the indicator snapshot (here
\* its current_price); recommendation, confidence, reasoning and analysis
\* timestamp are left unchanged.
C25_ServedRecordKeepsAnalysis ==
    [][ (now' = now /\ vCall'.t = "request" /\ ~vCall'.called /\ record # None) =>
            /\ record' # None
            /\ record'.recommendation = record.recommendation
            /\ record'.confidence_score = record.confidence_score
            /\ record'.ollama_reasoning = record.ollama_reasoning
            /\ record'.analysis_date = record.analysis_date ]_vars

\* C25 witness: a request served a BUY record analysed half an hour earlier at
\* another price, and the stored snapshot now carries the request's price
C25_Witness ==
    /\ vCall.t = "request" /\ ~vCall.called /\ ~vCall.raised /\ vCall.history = "rows"
    /\ vCall.before # None /\ record # None
    /\ vCall.before.confidence_score = Num(85)
    /\ vCall.before.current_price # vCall.current_price
    /\ record.current_price = vCall.current_price
    /\ record = [vCall.before EXCEPT !.current_price = vCall.current_price]
    /\ now - record.analysis_date = 30

\* C26: a request that finds a record whose snapshot has no stored price > 0
\* treats the record as stale: it recomputes (makes the reasoning call when
\* the lookups succeeded and there is an indicator snapshot), whatever the
\* age of the record.
C26_NoStoredPriceIsStale ==
    [][ (now' = now /\ vCall'.t = "request" /\ record # None
           /\ ~(record.current_price > 0)
           /\ ~vCall'.raised /\ vCall'.history = "rows")
        => vCall'.called ]_vars

(***************************************************************************)
(* Claims about the BackgroundTaskManager                                  *)
(***************************************************************************)
\* C10: when stop() is called while the price loop and the analysis loop are
\* both in their interval sleep, every loop thread it found asleep sees the
\* cleared flag at its next poll: it starts no further pass and has exited
\* within 5 seconds of the call.
C10_SleepingLoopsExit ==
    lastStop.bothSleeping =>
        \A k \in LoopKinds, s \in {"cur", "old"} :
            loops[k][s].asleepAtStop =>
                /\ loops[k][s].pc \in {"sleep", "for", "while", "exited"}
                /\ lastStop.age >= JoinTimeout => loops[k][s].pc = "exited"

\* C15: a start() call (from ready() or at the end of restart()) launches a
\* loop of every kind whose toggle is on and that has no live loop, and
\* launches nothing for a kind whose toggle is off, whatever start, stop,
\* restart and settings edits came before.
C15_StartLaunchesEnabledLoops ==
    [][\A c \in Callers :
          (Ready(c) \/ RestartStarts(c)) =>
              \A k \in LoopKinds :
                  /\ (Enabled(k, settings) /\ ~Alive(loops[k].cur) /\ ~Alive(loops[k].old))
                        => loops'[k].cur.pc = "while"
                  /\ ~Enabled(k, settings) => loops'[k] = loops[k]]_vars

\* C20: after any sequence of start, stop and restart at most one price loop
\* and at most one analysis loop is alive.
C20_AtMostOneLoopPerKind ==
    \A k \in LoopKinds : ~(Alive(loops[k].cur) /\ Alive(loops[k].old))

ExitsOnlyWhenStopped ==
    \A k \in LoopKinds, s \in {"cur", "old"} :
        (loops'[k][s].pc = "exited" /\ loops[k][s].pc # "exited")
            => (loops[k][s].pc = "while" /\ ~(running /\ Enabled(k, settings)))

C29_StopDuringBackoffEndsLoop ==
    \A k \in LoopKinds, s \in {"cur", "old"} :
        /\ loops[k][s].pc \in {"none", "while", "pass", "for", "sleep", "backoff", "exited"}
        /\ loops[k][s].backoffAtStop => loops[k][s].pc \in {"backoff", "while", "exited"}

(***************************************************************************)
(* Claims about the passes of the loops and the stored rows                *)
(***************************************************************************)
\* C11: in both loops a failure while handling one asset is caught for that
\* asset only: the pass goes on to the remaining assets, ends normally and
\* saves its timestamp; the backoff sleep is entered only after an error
\* outside the per-asset handling.
C11_AssetFailureContained ==
    /\ (pass.state = "assets") => (Len(pass.log) = Cardinality(Assets) - pass.todo)
    /\ (pass.state = "backoff") => (pass.error # "none")
    /\ (pass.kind # "none" /\ pass.state = "idle") =>
          (pass.saved /\ Len(pass.log) = Cardinality(Assets))

\* C11 witness: a finished pass whose first asset failed and whose second
\* asset was handled, the timestamp saved
C11_Witness ==
    /\ pass.state = "idle" /\ pass.saved
    /\ Len(pass.log) = 2
    /\ pass.log[1] = "failed"
    /\ pass.log[2] \in {"stored", "analysed"}

\* C13: after any interleaving of scheduled cycles and on-demand requests for
\* one asset the store holds at most one analysis row for that asset (so that
\* update_or_create keeps finding at most one row).
C13_AtMostOneRecord == \A a \in Assets : Len(store[a]) <= 1

\* C14: when a scheduled cycle wrote an asset's row between a request's read
\* and the request's write of that row, the row the request leaves stored is
\* the complete record of one of the two writers: the cycle's row or the
\* instance the request holds, never fields of both.
C14_StoredRecordOfOneWriter ==
    (req.t = "written" /\ req.between # None /\ req.stored # None) =>
        req.stored \in {req.between, req.instance}

\* C16: when the analysis loop's reasoning call fails for an asset whose
\* price, history and indicators were obtained, the asset's row is still
\* upserted in that step: the fresh snapshot, hold, confidence 0, a reasoning
\* text that explains the failure and the time of the step.
C16_FailedReasoningStillStored ==
    [][\A price_data \in LivePrices \ {None}, close \in CycleCloses, env \in ViewEnvs :
          (ReasoningFails(env)
             /\ AnalysisAssetStep(price_data, "rows", close, env, "ok"))
          => LET rows == store'[CurrentAsset]
             IN  /\ Len(rows) = 1
                 /\ rows[1].analysis_date = now
                 /\ rows[1].current_price = close
                 /\ rows[1].recommendation = Lower(HOLD)
                 /\ rows[1].confidence_score = Num(0)
                 /\ rows[1].ollama_reasoning.kind
                      \in {"service_unavailable", "other_error", "unavailable"}]_vars

(***************************************************************************)
(* Claims about the TechnicalIndicators                                    *)
(***************************************************************************)
\* the closes of the call rise strictly
StrictlyIncreasing ==
    \A i \in 2..Len(iCall.closes) : iCall.closes[i] > iCall.closes[i - 1]

\* C18: for a non-empty series with fewer than n samples the SMA(n) of the
\* latest-values snapshot (n = 20, n = 50) is None: get_latest_values does not
\* raise, the value is not a number (not zero), and the indicators that do not
\* need n samples (the EMAs, current_price) are numbers.
C18_ShortSeriesSmaAbsent ==
    (iCall.t = "call" /\ iCall.closes # <<>>) =>
        /\ iCall.values # Raised
        /\ (Len(iCall.closes) < 20) => (iCall.values.sma_20 = None)
        /\ (Len(iCall.closes) < 50) => (iCall.values.sma_50 = None)
        /\ iCall.values.ema_12.t = "ratio" /\ iCall.values.ema_26.t = "ratio"
        /\ iCall.values.current_price = Ratio(iCall.closes[Len(iCall.closes)], 1)

\* C18 witness: 19 closes: SMA(20) is None and EMA(12) is a number
C18_Witness ==
    /\ iCall.t = "call" /\ Len(iCall.closes) = 19
    /\ iCall.values.sma_20 = None
    /\ iCall.values.ema_12.t = "ratio"

\* C19: for strictly increasing closes that fill the window of 14 samples the
\* latest RSI(14) is exactly 100, not None and not an error.
C19_RisingSeriesRsi100 ==
    (iCall.t = "call" /\ Len(iCall.closes) >= 14 /\ StrictlyIncreasing) =>
        /\ iCall.values # Raised
        /\ iCall.values.rsi = Ratio(100, 1)

\* C19 witness: 14 rising closes, RSI 100
C19_Witness ==
    /\ iCall.t = "call" /\ Len(iCall.closes) = 14 /\ StrictlyIncreasing
    /\ iCall.values.rsi = Ratio(100, 1)

(***************************************************************************)
(* Claims about the call paths and the cache                               *)
(***************************************************************************)
\* path q stored an entry for the kind and the symbol less than 5 minutes ago
StoredWithinTTL(q, kind) ==
    LET m   == ApiManager(q)
        key == PathKey(kind)
    IN  /\ key \in DOMAIN managers[m]
        /\ managers[m][key].data.by = q
        /\ now - managers[m][key].timestamp < CacheDuration

\* C21: the cache is shared by the price loop, the analysis loop and the
\* on-demand calls: when a path begins an operation for a symbol while an
\* entry that another path stored for the same operation and symbol is
\* within the TTL, the lookup finds that entry (a cache hit), so the path
\* makes no provider call.
C21_EntryOfAnyPathIsAHit ==
    [][ \A p \in Paths :
          (CallOver(p) /\ calls'[p].pc \in {"found", "miss"}
             /\ \E q \in Paths \ {p} : StoredWithinTTL(q, calls'[p].kind))
          => calls'[p].pc = "found" ]_vars

\* an entry of a cache is one complete (value, fetch-time) pair
CompleteEntry(e) ==
    /\ DOMAIN e = {"data", "timestamp"}
    /\ DOMAIN e.data = {"t", "by"} /\ e.data.by \in Paths
    /\ e.timestamp \in 0..now

AtHead(k) == cyc[k].pc = "while" /\ cyc'[k] # cyc[k] /\ running

\* what a cycle does with the configuration apart from the reasoning
\* endpoint and model: at its head it takes the stored row, leaves the loop
\* if its toggle is off and begins a pass otherwise; the pass asks for the
\* days of that row and waits for the interval of that row
UsesStoredConfig(k) ==
    /\ AtHead(k) =>
          /\ cyc'[k].settings = row
          /\ cyc'[k].pc = IF Enabled(k, row) THEN "pass" ELSE "exited"
    /\ (cyc[k].pc = "pass" /\ cyc'[k].pc = "save" /\ k = "analysis") =>
          cyc'[k].used.days = cyc[k].settings.historical_days
    /\ (cyc[k].pc = "save" /\ cyc'[k].pc = "wait") =>
          cyc'[k].used.interval = cyc[k].settings[IntervalField(k)]

\* C27: every cycle of the price loop and of the analysis loop uses the
\* configuration stored at the start of that cycle (toggle, interval,
\* reasoning endpoint and model, historical days), so an edit made during
\* cycle k is used by cycle k+1 without a restart, and a loop whose toggle is
\* off at the start of a cycle exits there.
C27_CycleUsesStoredConfig ==
    [][ \A k \in LoopKinds :
          /\ UsesStoredConfig(k)
          /\ (cyc[k].pc = "pass" /\ cyc'[k].pc = "save" /\ k = "analysis") =>
                /\ cyc'[k].used.base_url = cyc[k].settings.ollama_base_url
                /\ cyc'[k].used.model = cyc[k].settings.ollama_model ]_vars

\* C27 as the code has it: the same, except that an empty endpoint or model
\* in the stored configuration is not used: the cycle keeps the endpoint or
\* model its analyzer had before (the previous cycle's, or the defaults of a
\* new thread).
C27_CycleUsesStoredConfigIfSet ==
    [][ \A k \in LoopKinds :
          /\ UsesStoredConfig(k)
          /\ (AtHead(k) /\ Enabled(k, row) /\ k = "analysis") =>
                /\ cyc'[k].analyzer.base_url =
                      (IF row.ollama_base_url # "" THEN row.ollama_base_url
                       ELSE cyc[k].analyzer.base_url)
                /\ cyc'[k].analyzer.model =
                      (IF row.ollama_model # "" THEN row.ollama_model
                       ELSE cyc[k].analyzer.model)
          /\ (cyc[k].pc = "pass" /\ cyc'[k].pc = "save" /\ k = "analysis") =>
                /\ cyc'[k].used.base_url = cyc[k].analyzer.base_url
                /\ cyc'[k].used.model = cyc[k].analyzer.model ]_vars

\* C27 witness: the second cycle of an analysis thread, which began with the
\* defaults, has used the endpoint, model and days of an edit and waits for
\* the interval of that edit; the price thread left at the head of a cycle
\* that found its toggle off
C27_Witness ==
    /\ running
    /\ cyc["analysis"].pc = "wait" /\ cyc["analysis"].n = 2
    /\ cyc["analysis"].used.days = 7 /\ cyc["analysis"].used.interval = 30
    /\ cyc["analysis"].used.base_url = "http://remote:11434"
    /\ cyc["analysis"].used.model = "llama3"
    /\ row.last_analysis_run = 2
    /\ cyc["price"].pc = "exited" /\ ~cyc["price"].settings.auto_update_prices

\* C28: the scheduler's only writes to the AppSettings row are
\* last_price_update (price loop) and last_analysis_run (analysis loop), each
\* written once at the end of a full pass: a step of a loop changes no other
\* field of the row, so an edit made while the pass was in progress is never
\* overwritten or reverted by the loop's save.
C28_SchedulerWritesOnlyItsTimestamp ==
    [][ (cyc' # cyc /\ row' # row) =>
            \E k \in LoopKinds :
                /\ cyc[k].pc = "save" /\ cyc'[k].pc = "wait"
                /\ \A k2 \in LoopKinds \ {k} : cyc'[k2] = cyc[k2]
                /\ row'[StampField(k)] = cyc[k].n
                /\ \A f \in DOMAIN row \ {StampField(k)} : row'[f] = row[f] ]_vars

\* C28 witness: the price loop saved the timestamp of its second pass on a row
\* that had been edited during the pass; the row has the edit (7 days, the
\* remote endpoint) and the timestamp, the loop's settings object still has
\* the values from the head of the cycle
C28_Witness ==
    /\ cyc["price"].pc = "wait" /\ cyc["price"].n = 2 /\ cyc["price"].used.edited
    /\ row.last_price_update = 2
    /\ row.historical_days = 7 /\ row.ollama_base_url = "http://remote:11434"
    /\ cyc["price"].settings.historical_days = 30
    /\ cyc["price"].settings.ollama_base_url = "http://localhost:11434"

====
